---- MODULE Spec2Model ----
(***************************************************************************)
(* Model of the LetsMCP AI service (src/ai/service.ts): the provider       *)
(* registry of an AIService, the fallback executor executeWithFallback,    *)
(* the process-wide singleton (getAIService / configureAIService) and the  *)
(* REST routes that read, replace and use it (src/api/routes.ts).          *)
(*                                                                         *)
(* JavaScript runs one synchronous segment at a time: an action of this    *)
(* model is one such segment, from a call or a resumption after an await   *)
(* up to the next await, return or throw.                                  *)
(***************************************************************************)
EXTENDS Integers, Sequences, FiniteSets, TLC

VARIABLES services, aiServiceInstance, env, calls, registryOps, last, requests,
          files, toolCalls

vars == <<services, aiServiceInstance, env, calls, registryOps, last, requests,
          files, toolCalls>>

(***************************************************************************)
(* Bounds of the model.                                                    *)
(***************************************************************************)
\* the operations that create or update a service, over a whole run
MaxRegistryOps == 2
\* the calls of an operation, over a whole run
MaxCalls == 1

\* the calls that can be suspended at the same time
MaxConcurrentCalls == 2
\* the requests to the routes of the operations, over a whole run
MaxRequests == 1

(***************************************************************************)
(* JavaScript values.                                                      *)
(***************************************************************************)
\* undefined, as a record so that it compares with every descriptor
Undefined == [undefined |-> TRUE]

\* Boolean(s) of a string: the empty string is falsy
Truthy(s) == s # ""

\* A Map keeps its entries in insertion order; set() of an existing key
\* replaces the value in place, set() of a new key appends.
MapHas(m, k) == \E i \in 1..Len(m) : m[i].key = k

MapGet(m, k) ==
    IF MapHas(m, k)
    THEN m[CHOOSE i \in 1..Len(m) : m[i].key = k].value
    ELSE Undefined

MapSet(m, k, v) ==
    IF MapHas(m, k)
    THEN [i \in 1..Len(m) |-> IF m[i].key = k THEN [key |-> k, value |-> v] ELSE m[i]]
    ELSE Append(m, [key |-> k, value |-> v])

MapKeys(m) == [i \in 1..Len(m) |-> m[i].key]

Range(s) == {s[i] : i \in 1..Len(s)}

(***************************************************************************)
(* Providers.                                                              *)
(***************************************************************************)
providerOrder == <<"groq", "claude", "gemini">>

Kinds == Range(providerOrder)

DefaultModel(kind) ==
    CASE kind = "groq" -> "llama-3.1-70b-versatile"
      [] kind = "claude" -> "claude-3-5-sonnet-20241022"
      [] kind = "gemini" -> "gemini-1.5-flash"

\* a provider that is given no key
NewProviderKeyless(kind, block) ==
    [name |-> kind,
     apiKey |-> "",
     model |-> IF "model" \in DOMAIN block THEN block.model ELSE DefaultModel(kind)]

\* new GroqProvider(apiKey, model) and its two siblings: the model
\* parameter takes its default when the argument is undefined
NewProvider(kind, block) ==
    [name |-> kind,
     apiKey |-> block.apiKey,
     model |-> IF "model" \in DOMAIN block THEN block.model ELSE DefaultModel(kind)]

isConfigured(provider) == Truthy(provider.apiKey)

(***************************************************************************)
(* Configurations: a record with an optional block per kind and an         *)
(* optional defaultProvider, as AIServiceConfig.                           *)
(***************************************************************************)
\* HasKey without the test of the apiKey: any block registers
HasKeyAnyBlock(config, kind) == kind \in DOMAIN config

\* config.<kind>?.apiKey is truthy
HasKey(config, kind) ==
    /\ kind \in DOMAIN config
    /\ Truthy(config[kind].apiKey)

\* config.defaultProvider is truthy
HasDefault(config) ==
    /\ "defaultProvider" \in DOMAIN config
    /\ Truthy(config.defaultProvider)

\* SetIfKey that unregisters the kind of a block without a key
SetOrClear(m, config, kind) ==
    IF HasKey(config, kind)
    THEN MapSet(m, kind, NewProvider(kind, config[kind]))
    ELSE IF kind \in DOMAIN config
         THEN SelectSeq(m, LAMBDA e : e.key # kind)
         ELSE m

\* if (config.<kind>?.apiKey) this.providers.set(kind, new Provider(...))
SetIfKey(m, config, kind) ==
    IF HasKey(config, kind)
    THEN MapSet(m, kind, NewProvider(kind, config[kind]))
    ELSE m

RegisterProviders(m, config) ==
    SetIfKey(SetIfKey(SetIfKey(m, config, "groq"), config, "claude"), config, "gemini")

SetDefault(def, config) ==
    IF HasDefault(config) THEN config.defaultProvider ELSE def

\* new AIService(config)
AIService(config) ==
    [providers |-> RegisterProviders(<<>>, config),
     defaultProvider |-> SetDefault("groq", config)]

\* updateConfig that builds the registry anew instead of merging into it
updateConfigReplacing(service, config) ==
    [providers |-> RegisterProviders(<<>>, config),
     defaultProvider |-> SetDefault("groq", config)]

\* service.updateConfig(config)
updateConfig(service, config) ==
    [providers |-> RegisterProviders(service.providers, config),
     defaultProvider |-> SetDefault(service.defaultProvider, config)]

getConfiguredProviders(service) == MapKeys(service.providers)

\* hasProvider that takes every service for a configured one
hasProviderAlways(service) == TRUE

hasProvider(service) == Len(service.providers) > 0

\* getProvider that gives up when the default provider is not registered
getProviderNoFallback(service, args) ==
    IF args # <<>> /\ Truthy(args[1])
    THEN MapGet(service.providers, args[1])
    ELSE MapGet(service.providers, service.defaultProvider)

\* service.getProvider(name?): args is <<>> when the name is omitted and
\* <<name>> otherwise; "if (name)" takes the empty name for an omitted one,
\* and values().next().value is the first entry of the Map
getProvider(service, args) ==
    IF args # <<>> /\ Truthy(args[1])
    THEN MapGet(service.providers, args[1])
    ELSE IF MapGet(service.providers, service.defaultProvider) # Undefined
         THEN MapGet(service.providers, service.defaultProvider)
         ELSE IF Len(service.providers) > 0
              THEN service.providers[1].value
              ELSE Undefined

(***************************************************************************)
(* Inputs.                                                                 *)
(***************************************************************************)
\* The configurations given to the constructor, to updateConfig and to
\* POST /config: none, one and all of the kinds, an empty apiKey, a second
\* key with a model of its own, a default that is registered, one that is
\* not, and one that is no kind at all.
Configs ==
    {[x \in {} |-> ""],
     [groq |-> [apiKey |-> "k1"]],
     [groq |-> [apiKey |-> "k2", model |-> "m2"], defaultProvider |-> "gemini"],
     [groq |-> [apiKey |-> ""], gemini |-> [apiKey |-> "k1"]],
     [claude |-> [apiKey |-> "k1"], defaultProvider |-> "mistral"],
     [groq |-> [apiKey |-> "k1"], claude |-> [apiKey |-> "k1"],
      gemini |-> [apiKey |-> "k1"], defaultProvider |-> "claude"]}

\* process.env: the variables that are set, each to a non-empty string
Envs ==
    {[x \in {} |-> ""],
     [GROQ_API_KEY |-> "k1", GEMINI_API_KEY |-> "k1", GEMINI_MODEL |-> "m2",
      DEFAULT_AI_PROVIDER |-> "gemini"]}

\* process.env.X || ''
EnvOr(e, x, d) == IF x \in DOMAIN e /\ Truthy(e[x]) THEN e[x] ELSE d

\* { apiKey: process.env.X_API_KEY || '', model: process.env.X_MODEL }
EnvBlock(e, keyVar, modelVar) ==
    IF modelVar \in DOMAIN e
    THEN [apiKey |-> EnvOr(e, keyVar, ""), model |-> e[modelVar]]
    ELSE [apiKey |-> EnvOr(e, keyVar, "")]

\* the configuration getAIService builds from the environment
EnvConfig(e) ==
    [groq |-> EnvBlock(e, "GROQ_API_KEY", "GROQ_MODEL"),
     claude |-> EnvBlock(e, "CLAUDE_API_KEY", "CLAUDE_MODEL"),
     gemini |-> EnvBlock(e, "GEMINI_API_KEY", "GEMINI_MODEL"),
     defaultProvider |-> EnvOr(e, "DEFAULT_AI_PROVIDER", "groq")]

\* the four public operations of AIService
Operations == {"generateText", "extractJobDetails", "analyzeResume", "draftEmail"}

\* the arguments of getProvider: none, the empty name, names of kinds and a
\* name that is no kind
ProviderArgs == {<<>>, <<"">>, <<"groq">>, <<"gemini">>, <<"mistral">>}

\* the operations of the calls that overlap
ConcurrentOperations == {"generateText", "analyzeResume"}

\* their preferredProvider: omitted, or a kind
ConcurrentPreferred == {"", "gemini"}

\* preferredProvider: "" stands for an omitted (or empty) argument
Preferred == {"", "gemini", "mistral"}

\* what a backend request can throw: an Error, or a value that is not one
Thrown == {[isError |-> TRUE, message |-> "API error"],
           [isError |-> FALSE, value |-> "timeout"]}

\* A text is the sequence of its characters.  BQ is the backquote, which
\* a string of this language cannot hold.
BQ == "<backquote>"

\* the markdown fence (three backquotes), bare and with its json tag
Fence == <<BQ, BQ, BQ>>
FenceJson == Fence \o <<"j", "s", "o", "n">>

\* The JSON values of the model.  An object is the record of its members;
\* a number, a string and null are records of one field that names the
\* type.  The strings are the word json, three backquotes and the empty one.
JsonValues ==
    {[matchScore |-> 75],
     [number |-> 75],
     [string |-> <<"j", "s", "o", "n">>],
     [string |-> <<BQ, BQ, BQ>>],
     [string |-> <<>>],
     [null |-> TRUE]}

\* JSON.stringify of these values (no character of the strings needs an
\* escape)
JSONStringify(v) ==
    CASE v = [matchScore |-> 75] ->
            <<"{", "\"", "m", "a", "t", "c", "h", "S", "c", "o", "r", "e", "\"", ":",
              "7", "5", "}">>
      [] v = [number |-> 75] -> <<"7", "5">>
      [] v = [null |-> TRUE] -> <<"n", "u", "l", "l">>
      [] "string" \in DOMAIN v -> <<"\"">> \o v.string \o <<"\"">>

\* a text that is not JSON
NotJson == <<"S", "o", "r", "r", "y">>

\* What a backend can answer: JSON in a markdown fence, and text that is
\* not JSON.
Contents == {FenceJson \o <<"\n">> \o JSONStringify([matchScore |-> 75]) \o <<"\n">> \o Fence,
             NotJson}

\* The texts parseAIJson is given for a value: its serialization, after a
\* leading marker or none, before a trailing marker or none, with
\* whitespace or none at each of the four places around them.
Whitespace == {<<>>, <<"\n">>, <<" ", "\n">>}
LeadingMarkers == {<<>>, FenceJson, Fence}
TrailingMarkers == {<<>>, Fence}

Wrapped(v, lead, trail, ws) ==
    ws[1] \o lead \o ws[2] \o JSONStringify(v) \o ws[3] \o trail \o ws[4]

ParseInputs ==
    {[value |-> v, lead |-> lead, trail |-> trail, text |-> Wrapped(v, lead, trail, ws)] :
        v \in JsonValues, lead \in LeadingMarkers, trail \in TrailingMarkers,
        ws \in [1..4 -> Whitespace]}

\* the arguments of the operations, fixed
JobText == "job text"
JobTitle == "Engineer"

\* a text of more than 500 characters, and its first 500 characters
LongJobText == "job text of 700 characters"
LongJobTextStart == "job text of 700 characters, cut after 500"

\* text.slice(0, 500)
FirstChars(text) == IF text = LongJobText THEN LongJobTextStart ELSE text

\* the argument of an operation that its placeholder is built from: the
\* text of extractJobDetails, the jobTitle of the context of draftEmail
OperationInput(op) ==
    CASE op = "extractJobDetails" -> JobText
      [] op = "draftEmail" -> JobTitle
      [] OTHER -> ""

\* The URLs of the requests to /extract-job: a LinkedIn job posting, and a
\* page of another site.
LinkedInUrl == "https://www.linkedin.com/jobs/view/1"
OtherUrl == "https://example.com/job"

\* The bodies of the requests, as express.json() hands them to the routes:
\* objects, with the required fields present, empty or missing.
GenerateBodies ==
    {[x \in {} |-> ""],
     [prompt |-> ""],
     [prompt |-> "hello"],
     [prompt |-> "hello", provider |-> "gemini"]}

ExtractBodies ==
    {[provider |-> "gemini"],
     [text |-> "", url |-> ""],
     [text |-> JobText],
     [text |-> LongJobText],
     [url |-> LinkedInUrl],
     [url |-> OtherUrl, provider |-> "gemini"]}

AnalyzeBodies ==
    {[jobDescription |-> "job text"],
     [jobDescription |-> "", resumeText |-> "resume"],
     [jobDescription |-> "job text", resumeText |-> "resume"]}

DraftBodies ==
    {[recipientName |-> "Ann", companyName |-> "Acme"],
     [recipientName |-> "Ann", companyName |-> "Acme", jobTitle |-> ""],
     [recipientName |-> "Ann", companyName |-> "Acme", jobTitle |-> JobTitle,
      provider |-> "gemini"]}

\* what scrapeLinkedInJob resolves with: a posting, a page whose title was
\* not found, and a page where nothing was found
Scraped ==
    {[title |-> JobTitle, company |-> "Acme", location |-> "Berlin",
      description |-> JobText],
     [title |-> "", company |-> "", location |-> "", description |-> JobText],
     [title |-> "", company |-> "", location |-> "", description |-> ""]}

\* what response.text() of a fetched page resolves with
Pages == {"<html>job text</html>"}

(***************************************************************************)
(* The fallback executor.                                                  *)
(***************************************************************************)
\* [...new Set(s)]: the first occurrence of every element, in order
RECURSIVE Dedup(_, _)
Dedup(s, seen) ==
    IF s = <<>> THEN <<>>
    ELSE IF Head(s) \in seen THEN Dedup(Tail(s), seen)
    ELSE <<Head(s)>> \o Dedup(Tail(s), seen \cup {Head(s)})

\* TrialOrder with the default provider after the static order
TrialOrderDefaultLast(preferredProvider, defaultProvider) ==
    Dedup(SelectSeq(<<preferredProvider>> \o providerOrder \o <<defaultProvider>>, Truthy), {})

\* [preferredProvider, this.defaultProvider, ...this.providerOrder]
\*     .filter(Boolean), without its duplicates
TrialOrder(preferredProvider, defaultProvider) ==
    Dedup(SelectSeq(<<preferredProvider, defaultProvider>> \o providerOrder, Truthy), {})

\* errors.join('\n')
RECURSIVE Join(_)
Join(errors) ==
    IF errors = <<>> THEN ""
    ELSE IF Len(errors) = 1 THEN errors[1]
    ELSE errors[1] \o "\n" \o Join(Tail(errors))

\* error instanceof Error ? error.message : String(error)
ErrorText(thrown) == IF thrown.isError THEN thrown.message ELSE thrown.value

\* ErrorEntry without the name of the provider
ErrorEntryUnnamed(providerName, msg) == msg

\* `${providerName}: ${msg}`
ErrorEntry(providerName, msg) == providerName \o ": " \o msg

\* ExhaustionMessage without its first line
ExhaustionMessageBare(errors) == Join(errors)

\* new Error(`All providers failed:\n${errors.join('\n')}`)
ExhaustionMessage(errors) == "All providers failed:\n" \o Join(errors)

\* the test that makes the loop pass over a name
Skips(provider) == provider = Undefined \/ ~isConfigured(provider)

\* RunLoop that answers an empty text when it has nothing to report
RECURSIVE RunLoopEmptySuccess(_, _)
RunLoopEmptySuccess(c, providers) ==
    IF c.idx > Len(c.order)
    THEN IF c.errors = <<>>
         THEN [c EXCEPT !.status = "returned",
                        !.result = [text |-> <<>>, provider |-> ""]]
         ELSE [c EXCEPT !.status = "threw", !.message = ExhaustionMessage(c.errors)]
    ELSE LET providerName == c.order[c.idx]
             provider == MapGet(providers, providerName)
         IN IF Skips(provider)
            THEN RunLoopEmptySuccess([c EXCEPT !.idx = @ + 1,
                                               !.skipped = Append(@, providerName)],
                                     providers)
            ELSE [c EXCEPT !.status = "awaiting",
                           !.provider = provider,
                           !.attempts = Append(@, [name |-> providerName,
                                                   outcome |-> "pending"])]

\* RunLoop that logs an error for a name that is not registered
RECURSIVE RunLoopLogsMissing(_, _)
RunLoopLogsMissing(c, providers) ==
    IF c.idx > Len(c.order)
    THEN [c EXCEPT !.status = "threw", !.message = ExhaustionMessage(c.errors)]
    ELSE LET providerName == c.order[c.idx]
             provider == MapGet(providers, providerName)
         IN IF Skips(provider)
            THEN RunLoopLogsMissing(
                    [c EXCEPT !.idx = @ + 1,
                              !.skipped = Append(@, providerName),
                              !.errors = Append(@, ErrorEntry(providerName,
                                                              "not configured"))],
                    providers)
            ELSE [c EXCEPT !.status = "awaiting",
                           !.provider = provider,
                           !.attempts = Append(@, [name |-> providerName,
                                                   outcome |-> "pending"])]

\* RunLoop that sends the requests of all the names left at once
RECURSIVE RunLoopParallel(_, _)
RunLoopParallel(c, providers) ==
    IF c.idx > Len(c.order)
    THEN [c EXCEPT !.status = "threw", !.message = ExhaustionMessage(c.errors)]
    ELSE LET providerName == c.order[c.idx]
             provider == MapGet(providers, providerName)
         IN IF Skips(provider)
            THEN RunLoopParallel([c EXCEPT !.idx = @ + 1,
                                           !.skipped = Append(@, providerName)],
                                 providers)
            ELSE [c EXCEPT !.status = "awaiting",
                           !.provider = provider,
                           !.attempts = @ \o [k \in 1..(Len(c.order) - c.idx + 1) |->
                                                [name |-> c.order[c.idx + k - 1],
                                                 outcome |-> "pending"]]]

\* The for loop from position c.idx, up to the next backend request (the
\* call then awaits it) or to the throw after the last name.  skipped and
\* attempts record what the loop did with each name.
RECURSIVE RunLoop(_, _)
RunLoop(c, providers) ==
    IF c.idx > Len(c.order)
    THEN [c EXCEPT !.status = "threw", !.message = ExhaustionMessage(c.errors)]
    ELSE LET providerName == c.order[c.idx]
             provider == MapGet(providers, providerName)
         IN IF Skips(provider)
            THEN RunLoop([c EXCEPT !.idx = @ + 1,
                                   !.skipped = Append(@, providerName)], providers)
            ELSE [c EXCEPT !.status = "awaiting",
                           !.provider = provider,
                           !.attempts = Append(@, [name |-> providerName,
                                                   outcome |-> "pending"])]

\* the call of one of the four operations on the service held at s, up to
\* its first await
NewCallOn(service, s, op, preferredProvider, input) ==
    RunLoop([svc |-> s, op |-> op, preferredProvider |-> preferredProvider,
             input |-> input,
             defaultAtCall |-> service.defaultProvider,
             order |-> TrialOrder(preferredProvider, service.defaultProvider),
             idx |-> 1, status |-> "running", provider |-> Undefined,
             errors |-> <<>>, attempts |-> <<>>, skipped |-> <<>>,
             providersAtCall |-> getConfiguredProviders(service),
             registryAtCall |-> service.providers,
             message |-> "", result |-> Undefined],
            service.providers)

\* the call of an operation by a caller that holds the service
NewCall(s, op, preferredProvider) ==
    NewCallOn(services[s], s, op, preferredProvider, OperationInput(op))

(***************************************************************************)
(* The provider operations (GroqProvider and its siblings).                *)
(***************************************************************************)
IsSpace(t) == t \in {" ", "\n"}

\* String.prototype.trim
RECURSIVE TrimStart(_)
TrimStart(t) == IF t # <<>> /\ IsSpace(Head(t)) THEN TrimStart(Tail(t)) ELSE t

RECURSIVE TrimEnd(_)
TrimEnd(t) ==
    IF t # <<>> /\ IsSpace(t[Len(t)]) THEN TrimEnd(SubSeq(t, 1, Len(t) - 1)) ELSE t

Trim(t) == TrimEnd(TrimStart(t))

\* String.prototype.startsWith and endsWith
StartsWith(t, prefix) ==
    Len(t) >= Len(prefix) /\ SubSeq(t, 1, Len(prefix)) = prefix

EndsWith(t, suffix) ==
    Len(t) >= Len(suffix) /\ SubSeq(t, Len(t) - Len(suffix) + 1, Len(t)) = suffix

\* JSON.parse: the value whose serialization the text is, whitespace
\* around it allowed; ok is FALSE where JSON.parse throws
JSONParse(t) ==
    IF \E v \in JsonValues : JSONStringify(v) = Trim(t)
    THEN [ok |-> TRUE, value |-> CHOOSE v \in JsonValues : JSONStringify(v) = Trim(t)]
    ELSE [ok |-> FALSE]

\* parseAIJson that looks for the bare fence first
parseAIJsonBareFirst(response) ==
    LET cleaned == Trim(response)
        opened == IF StartsWith(cleaned, Fence)
                  THEN SubSeq(cleaned, 4, Len(cleaned))
                  ELSE IF StartsWith(cleaned, FenceJson)
                       THEN SubSeq(cleaned, 8, Len(cleaned))
                       ELSE cleaned
        closed == IF EndsWith(opened, Fence)
                  THEN SubSeq(opened, 1, Len(opened) - 3)
                  ELSE opened
    IN JSONParse(Trim(closed))

\* parseAIJson: trim, slice(7) after a leading fence with json or else
\* slice(3) after a bare one, slice(0, -3) before a trailing fence, trim,
\* JSON.parse
parseAIJson(response) ==
    LET cleaned == Trim(response)
        opened == IF StartsWith(cleaned, FenceJson)
                  THEN SubSeq(cleaned, 8, Len(cleaned))
                  ELSE IF StartsWith(cleaned, Fence)
                       THEN SubSeq(cleaned, 4, Len(cleaned))
                       ELSE cleaned
        closed == IF EndsWith(opened, Fence)
                  THEN SubSeq(opened, 1, Len(opened) - 3)
                  ELSE opened
    IN JSONParse(Trim(closed))

\* Placeholder that is no payload at all
PlaceholderNull(op, input) == Undefined

\* the placeholder that holds the whole text
PlaceholderWhole(op, input) ==
    CASE op = "extractJobDetails" ->
            [title |-> "", company |-> "", location |-> "", description |-> input]
      [] op = "analyzeResume" ->
            [matchScore |-> 50, strengths |-> <<>>, gaps |-> <<>>,
             recommendations |-> <<"Unable to complete AI analysis">>,
             keywords |-> [matched |-> <<>>, missing |-> <<>>]]
      [] op = "draftEmail" ->
            [subject |-> "Reaching out about " \o input,
             body |-> "Unable to generate email draft.", confidence |-> 0]

\* what the catch block of a provider operation returns
Placeholder(op, input) ==
    CASE op = "extractJobDetails" ->
            [title |-> "", company |-> "", location |-> "",
             description |-> FirstChars(input)]
      [] op = "analyzeResume" ->
            [matchScore |-> 50, strengths |-> <<>>, gaps |-> <<>>,
             recommendations |-> <<"Unable to complete AI analysis">>,
             keywords |-> [matched |-> <<>>, missing |-> <<>>]]
      [] op = "draftEmail" ->
            [subject |-> "Reaching out about " \o input,
             body |-> "Unable to generate email draft.", confidence |-> 0]

\* the value a provider operation resolves with once callAPI answered
ProviderResult(op, content, input) ==
    IF op = "generateText" THEN content
    ELSE IF parseAIJson(content).ok THEN parseAIJson(content).value
    ELSE Placeholder(op, input)

\* what the public operation returns from { result, provider }
OperationResult(op, result, provider) ==
    IF op = "generateText"
    THEN [text |-> result, provider |-> provider]
    ELSE [data |-> result, provider |-> provider]

\* the last attempt of a call, once its backend request has ended
EndAttempt(attempts, ended) == [attempts EXCEPT ![Len(attempts)] = ended]

\* Resolved that names the first provider of the trial order
ResolvedNamesFirst(c, content) ==
    [c EXCEPT !.status = "returned",
              !.attempts = EndAttempt(@, [name |-> c.order[c.idx],
                                          outcome |-> "succeeded",
                                          content |-> content]),
              !.result = OperationResult(c.op, ProviderResult(c.op, content, c.input),
                                         c.order[1])]

\* the backend request of an awaiting call was answered
Resolved(c, content) ==
    [c EXCEPT !.status = "returned",
              !.attempts = EndAttempt(@, [name |-> c.order[c.idx],
                                          outcome |-> "succeeded",
                                          content |-> content]),
              !.result = OperationResult(c.op, ProviderResult(c.op, content, c.input),
                                         c.order[c.idx])]

\* Rejected that asks the provider that failed once more
RejectedRetries(c, thrown, providers) ==
    RunLoop([c EXCEPT !.attempts = EndAttempt(@, [name |-> c.order[c.idx],
                                                  outcome |-> "failed",
                                                  error |-> ErrorText(thrown)]),
                      !.errors = Append(@, ErrorEntry(c.order[c.idx], ErrorText(thrown)))],
            providers)

\* Rejected that leaves out the name after the one that failed
RejectedJumps(c, thrown, providers) ==
    RunLoop([c EXCEPT !.attempts = EndAttempt(@, [name |-> c.order[c.idx],
                                                  outcome |-> "failed",
                                                  error |-> ErrorText(thrown)]),
                      !.errors = Append(@, ErrorEntry(c.order[c.idx], ErrorText(thrown))),
                      !.idx = @ + 2],
            providers)

\* the error logs of the calls other than c, one after the other
RECURSIVE LogsOfOthers(_, _)
LogsOfOthers(c, j) ==
    IF j > Len(calls) THEN <<>>
    ELSE (IF calls[j] = c THEN <<>> ELSE calls[j].errors) \o LogsOfOthers(c, j + 1)

\* Rejected with one error log for all the calls
RejectedSharedLog(c, thrown, providers) ==
    RunLoop([c EXCEPT !.attempts = EndAttempt(@, [name |-> c.order[c.idx],
                                                  outcome |-> "failed",
                                                  error |-> ErrorText(thrown)]),
                      !.errors = LogsOfOthers(c, 1) \o @
                                    \o <<ErrorEntry(c.order[c.idx], ErrorText(thrown))>>,
                      !.idx = @ + 1],
            providers)

\* the backend request of an awaiting call threw: the catch block, then
\* the loop again from the next name, over the registry as it is now
Rejected(c, thrown, providers) ==
    RunLoop([c EXCEPT !.attempts = EndAttempt(@, [name |-> c.order[c.idx],
                                                  outcome |-> "failed",
                                                  error |-> ErrorText(thrown)]),
                      !.errors = Append(@, ErrorEntry(c.order[c.idx], ErrorText(thrown))),
                      !.idx = @ + 1],
            providers)

(***************************************************************************)
(* The tools of the MCP server (src/tools.ts): the files they work on and  *)
(* the arguments of their calls.                                           *)
(***************************************************************************)
\* the calls of saveToFile, over a whole run
MaxSaves == 2

\* a path is the sequence of its segments; process.cwd() is the empty one
baseDir == <<"mcp-files">>

\* path.resolve on a relative path: a segment ".." removes the one before
RECURSIVE resolve(_)
resolve(path) ==
    IF path = <<>> THEN <<>>
    ELSE LET front == resolve(SubSeq(path, 1, Len(path) - 1))
             seg == path[Len(path)]
         IN IF seg = ".."
            THEN (IF front = <<>> THEN <<>> ELSE SubSeq(front, 1, Len(front) - 1))
            ELSE Append(front, seg)

\* the file names and categories a call of saveToFile is given
Filenames == {<<"a.txt">>, <<"notes", "..", "a.txt">>, <<"..", "a.txt">>}
Categories == {Undefined, [value |-> "notes"]}
\* the texts a call writes, and the text a file holds before any call
SaveContents == {"one", "two"}
OldContent == "old"
Overwrites == {Undefined, [value |-> FALSE], [value |-> TRUE]}

SaveArgs ==
    [content : SaveContents, filename : Filenames, category : Categories,
     overwrite : Overwrites]

\* category ? path.join(baseDir, category, filename) : path.join(baseDir, filename)
SaveFilePath(input) ==
    IF input.category # Undefined
    THEN baseDir \o <<input.category.value>> \o input.filename
    ELSE baseDir \o input.filename

\* resolved.startsWith(path.resolve(baseDir))
InsideBaseDir(resolved) ==
    /\ Len(resolved) >= Len(baseDir)
    /\ SubSeq(resolved, 1, Len(baseDir)) = baseDir

\* the files the calls can reach, and a path that holds no file
SavePaths == {resolve(SaveFilePath(a)) : a \in {b \in SaveArgs : InsideBaseDir(resolve(SaveFilePath(b)))}}
Absent == [absent |-> TRUE]

\* a file that holds a text
File(text) == [content |-> text]

\* a call whose arguments lack the content
InvalidSaveArgs == {[filename |-> <<"a.txt">>]}

\* typeof input.content === 'string' && typeof input.filename === 'string'
validateSaveToFileInput(args) ==
    "content" \in DOMAIN args /\ "filename" \in DOMAIN args

\* what fs.mkdir and fs.writeFile reject with
FsThrown == {[isError |-> TRUE, message |-> "ENOSPC: no space left on device"]}

\* the value a tool handler returns: { content: [{type: 'text', text}] },
\* with isError: true when it reports an error
ToolResult(text) == [isError |-> FALSE, text |-> text]
ToolError(text) == [isError |-> TRUE, text |-> text]
Pending == [pending |-> TRUE]

\* the calls of executeCommand, over a whole run
MaxCommands == 2
\* the time the model follows a child process for, in ms
MaxElapsed == 40000
\* the step of the clock, in ms
TickMs == 10000

\* input.timeout || 30000
DefaultTimeout == 30000
CommandTimeout(input) ==
    IF input.timeout = Undefined \/ input.timeout = [value |-> 0]
    THEN DefaultTimeout ELSE input.timeout.value

\* the commands: one that exists and one that spawn does not find
Commands == {"sleep", "nosuch"}
Timeouts == {Undefined, [value |-> 0], [value |-> 20000]}
CommandArgs == [command : Commands, timeout : Timeouts]
InvalidCommandArgs == {[timeout |-> [value |-> 20000]]}

\* typeof input.command === 'string'
validateExecuteCommandInput(args) == "command" \in DOMAIN args

\* the codes a child exits with by itself, and what it has written by then
ExitCodes == {0, 1}
Outputs == {"", "done"}

\* code || 0, where code is null when a signal ended the child
Null == [null |-> TRUE]
ExitCodeOrZero(code) == IF code = Null THEN 0 ELSE code.value

\* the error event of a command that cannot be spawned
SpawnError(command) == [isError |-> TRUE, message |-> "spawn " \o command \o " ENOENT"]

\* the calls of searchFiles, over a whole run
MaxSearches == 1
\* the lines of a file of the model, at most
MaxLines == 2

\* input.maxResults ?? 50
DefaultMaxResults == 50

\* the lines of the files: texts over the letters a, A and x and the space
SearchLines == {<<"a">>, <<"x", "a">>, <<"x">>, <<" ", "A", " ">>}

\* content.split('\n') of the files: each is the sequence of its lines
FileLines == UNION {[1..n -> SearchLines] : n \in 0..MaxLines}

\* a file; fs.readFile rejects for one that is not readable
SearchFile(name, ext, lines, readable) ==
    [name |-> name, ext |-> ext, type |-> "file", lines |-> lines,
     readable |-> readable]
SearchDir(name, entries) ==
    [name |-> name, type |-> "directory", entries |-> entries]

\* the directories searched, as fs.readdir lists them: a file alone, or a
\* file and a directory that holds a second file, in either order
SearchTrees ==
    {<<SearchFile("a.txt", "txt", l, TRUE)>> : l \in FileLines}
    \cup {<<SearchFile("a.txt", "txt", <<>>, FALSE)>>}
    \cup {<<SearchFile("a.txt", "txt", l, TRUE), SearchDir("sub", <<SearchFile("b.md", "md", m, TRUE)>>)>> :
            l \in FileLines, m \in FileLines}
    \cup {<<SearchDir("sub", <<SearchFile("b.md", "md", m, TRUE)>>), SearchFile("a.txt", "txt", l, TRUE)>> :
            l \in FileLines, m \in FileLines}

\* the queries: a letter, and a pattern that is no regular expression
ValidQuery == <<"a">>
InvalidQuery == <<"(">>

SearchArgs ==
    [query : {ValidQuery}, path : {"docs"},
     caseSensitive : {Undefined, [value |-> TRUE]},
     maxResults : {Undefined, [value |-> 1]},
     recursive : {Undefined, [value |-> FALSE]},
     fileTypes : {Undefined, [value |-> <<"txt">>]}]
    \cup {[query |-> InvalidQuery, path |-> "docs", caseSensitive |-> Undefined,
           maxResults |-> Undefined, recursive |-> Undefined, fileTypes |-> Undefined]}
InvalidSearchArgs == {[query |-> ValidQuery]}

\* typeof input.query === 'string' && typeof input.path === 'string'
validateSearchFilesInput(args) == "query" \in DOMAIN args /\ "path" \in DOMAIN args

\* the defaults of the options (??)
OrDefault(option, default) == IF option = Undefined THEN default ELSE option.value

\* the flag i: a letter and its capital are one
Lower(ch) == IF ch = "A" THEN "a" ELSE ch

\* the pattern matches the line at the index pos (from 0)
MatchAt(query, line, pos, ignoreCase) ==
    /\ pos + Len(query) <= Len(line)
    /\ \A k \in 1..Len(query) :
          IF ignoreCase THEN Lower(line[pos + k]) = Lower(query[k])
          ELSE line[pos + k] = query[k]

\* regex.test(line) of a regular expression with the flag g: the search
\* starts at lastIndex, a match leaves lastIndex behind it and a failure
\* sets it to 0
RegexTest(query, ignoreCase, line, lastIndex) ==
    LET found == {pos \in lastIndex..Len(line) : MatchAt(query, line, pos, ignoreCase)}
    IN IF found = {}
       THEN [matched |-> FALSE, lastIndex |-> 0]
       ELSE [matched |-> TRUE,
             lastIndex |-> (CHOOSE pos \in found : \A q \in found : pos <= q) + Len(query)]

\* the entries the loops of searchDirectory come to, in their order: the
\* files of a directory (when recursive) stand where the directory stands
RECURSIVE Traversal(_, _, _)
Traversal(entries, dir, recursive) ==
    IF entries = <<>> THEN <<>>
    ELSE LET entry == Head(entries)
             fullPath == dir \o <<entry.name>>
             rest == Traversal(Tail(entries), dir, recursive)
         IN IF entry.type = "directory"
            THEN (IF recursive THEN Traversal(entry.entries, fullPath, recursive) ELSE <<>>) \o rest
            ELSE <<[path |-> fullPath, ext |-> entry.ext, lines |-> entry.lines,
                    readable |-> entry.readable]>> \o rest

\* lines.forEach(...) from the line k on: st holds matches and lastIndex
RECURSIVE ScanLines(_, _, _, _, _)
ScanLines(file, k, st, input, maxResults) ==
    IF k > Len(file.lines) THEN st
    ELSE IF Len(st.matches) >= maxResults
    THEN ScanLines(file, k + 1, st, input, maxResults)
    ELSE LET t == RegexTest(input.query, ~OrDefault(input.caseSensitive, FALSE),
                            file.lines[k], st.lastIndex)
             next == [matches |-> IF t.matched
                                  THEN Append(st.matches,
                                              [file |-> file.path, line |-> k,
                                               content |-> Trim(file.lines[k])])
                                  ELSE st.matches,
                      lastIndex |-> t.lastIndex]
         IN ScanLines(file, k + 1, next, input, maxResults)

\* if (!input.fileTypes.includes(ext)) continue: the files the filter
\* leaves out are passed over up to the next file that is read
RECURSIVE SkipFiltered(_, _)
SkipFiltered(todo, input) ==
    IF todo = <<>> THEN <<>>
    ELSE IF /\ input.fileTypes # Undefined
            /\ Head(todo).ext \notin Range(input.fileTypes.value)
    THEN SkipFiltered(Tail(todo), input)
    ELSE todo

\* what new RegExp(input.query, flags) throws for InvalidQuery
RegexSyntaxError == [isError |-> TRUE, message |-> "Invalid regular expression: /(/: Unterminated group"]
\* what fs.readdir rejects with when the directory is missing
ReaddirThrown == {[isError |-> TRUE, message |-> "ENOENT: no such file or directory, scandir"]}

\* the calls of echoText, over a whole run
MaxEchoes == 2
\* the characters of a text given to echoText, at most
MaxTextLen == 3

\* the texts: letters, spaces, line ends and double quotes
EchoChars == {"a", " ", "\n", "\""}
EchoTexts == UNION {[1..n -> EchoChars] : n \in 0..MaxTextLen}

\* request.params.arguments: absent, without text, with a text that is a
\* number, with a text that is a string
EchoArgs ==
    {Undefined, <<>>, [text |-> [number |-> 123]]}
    \cup {[text |-> [string |-> t]] : t \in EchoTexts}

\* typeof input.text === 'string'; reading a property of undefined throws
validateEchoTextInput(args) ==
    IF args = Undefined THEN [threw |-> TRUE]
    ELSE [threw |-> FALSE,
          value |-> "text" \in DOMAIN args /\ "string" \in DOMAIN args.text]

\* the handler has thrown: its promise is rejected
Threw(message) == [threw |-> TRUE, message |-> message]

\* JSON.stringify of a string: the double quote and the line end are escaped
RECURSIVE Escape(_)
Escape(t) ==
    IF t = <<>> THEN <<>>
    ELSE (CASE Head(t) = "\"" -> <<"\\", "\"">>
            [] Head(t) = "\n" -> <<"\\", "n">>
            [] OTHER -> <<Head(t)>>) \o Escape(Tail(t))

Quote(t) == <<"\"">> \o Escape(t) \o <<"\"">>

\* JSON.stringify({echoed: text}, null, 2)
EchoedJson(t) ==
    <<"{", "\n", " ", " ">> \o Quote(<<"e", "c", "h", "o", "e", "d">>) \o <<":", " ">>
    \o Quote(t) \o <<"\n", "}">>

InvalidEchoMessage == "Error: Invalid input. Expected { text: string }."
EmptyEchoMessage == "Oops! It looks like you sent me empty text. Please provide some text to echo back."

\* case 'echoText'
echoText(args) ==
    IF validateEchoTextInput(args).threw
    THEN Threw("TypeError: Cannot read properties of undefined (reading 'text')")
    ELSE IF ~validateEchoTextInput(args).value
    THEN ToolError(<<InvalidEchoMessage>>)
    ELSE IF args.text.string = <<>> \/ Len(Trim(args.text.string)) = 0
    THEN ToolError(<<EmptyEchoMessage>>)
    ELSE ToolResult(EchoedJson(args.text.string))

\* the calls of summarizeDirectory, over a whole run
MaxSummaries == 1
\* the entries of a directory of the model, at most
MaxEntries == 22

\* const displayLimit = 20
displayLimit == 20

\* the kinds of the entries of a directory: all files; files and
\* directories in turn; files, directories and links in turn
EntryPatterns == {<<"file">>, <<"file", "directory">>, <<"file", "directory", "link">>}

\* fs.readdir(resolvedPath, { withFileTypes: true }): the entry k has the
\* name k
Directory(n, pattern) ==
    [k \in 1..n |-> [name |-> k, type |-> pattern[((k - 1) % Len(pattern)) + 1]]]

Directories == {Directory(n, p) : n \in 0..MaxEntries, p \in EntryPatterns}

SummarizeArgs == {[path |-> "docs"], [path |-> "src"], [path |-> ""], <<>>}

\* typeof input.path === 'string' && input.path.length > 0
validateSummarizeDirectoryInput(args) == "path" \in DOMAIN args /\ args.path # ""

\* entries.slice(0, n)
Slice(entries, n) == SubSeq(entries, 1, IF Len(entries) < n THEN Len(entries) ELSE n)

EntryNames(entries) == [k \in 1..Len(entries) |-> entries[k].name]

\* `  ${item.isDirectory() ? '📁' : '📄'} ${item.name}`
ItemLine(item) ==
    [icon |-> IF item.type = "directory" THEN "folder" ELSE "page", name |-> item.name]

\* the summary that lists every entry
summarizeUnlimited(path, entries) ==
    LET fileEntries == SelectSeq(entries, LAMBDA e : e.type = "file")
        directories == SelectSeq(entries, LAMBDA e : e.type = "directory")
        totalItems == Len(entries)
    IN [directory |-> path,
        found |-> [files |-> Len(fileEntries), directories |-> Len(directories),
                   total |-> totalItems],
        exampleFiles |-> EntryNames(Slice(fileEntries, 3)),
        exampleDirs |-> EntryNames(Slice(directories, 3)),
        heading |-> IF totalItems > displayLimit
                    THEN [text |-> "Showing first of items:", first |-> displayLimit,
                          of |-> totalItems]
                    ELSE IF totalItems > 0 THEN [text |-> "All items:"]
                    ELSE [text |-> ""],
        items |-> [k \in 1..Len(entries) |-> ItemLine(entries[k])]]

\* the summary the tool builds from the entries of the directory: its
\* lines, each with the values it prints
summarize(path, entries) ==
    LET fileEntries == SelectSeq(entries, LAMBDA e : e.type = "file")
        directories == SelectSeq(entries, LAMBDA e : e.type = "directory")
        totalItems == Len(entries)
        itemsToShow == Slice(entries, displayLimit)
    IN [directory |-> path,
        found |-> [files |-> Len(fileEntries), directories |-> Len(directories),
                   total |-> totalItems],
        exampleFiles |-> EntryNames(Slice(fileEntries, 3)),
        exampleDirs |-> EntryNames(Slice(directories, 3)),
        heading |-> IF totalItems > displayLimit
                    THEN [text |-> "Showing first of items:", first |-> displayLimit,
                          of |-> totalItems]
                    ELSE IF totalItems > 0 THEN [text |-> "All items:"]
                    ELSE [text |-> ""],
        items |-> [k \in 1..Len(itemsToShow) |-> ItemLine(itemsToShow[k])]]

\* what fs.readdir rejects with when the path is a file
NotADirectory == [isError |-> TRUE, message |-> "ENOTDIR: not a directory, scandir"]

(***************************************************************************)
(* The state machine.                                                      *)
(***************************************************************************)
NoOp == [kind |-> "none"]

\* no file under the directory mcp-files
NoFiles == [p \in SavePaths |-> Absent]

Init ==
    /\ services = <<>>
    /\ aiServiceInstance = 0
    /\ env \in Envs
    /\ calls = <<>>
    /\ registryOps = 0
    /\ last = NoOp
    /\ requests = <<>>
    /\ files = NoFiles
    /\ toolCalls = <<>>

\* new AIService(config), by a caller that keeps the instance to itself
NewService(config) ==
    /\ registryOps < MaxRegistryOps
    /\ registryOps' = registryOps + 1
    /\ services' = Append(services, AIService(config))
    /\ last' = [kind |-> "new", svc |-> Len(services) + 1, config |-> config]
    /\ UNCHANGED <<aiServiceInstance, env, files, toolCalls, calls, requests>>

\* service.updateConfig(config)
UpdateConfig(s, config) ==
    /\ registryOps < MaxRegistryOps
    /\ registryOps' = registryOps + 1
    /\ services' = [services EXCEPT ![s] = updateConfig(@, config)]
    /\ last' = [kind |-> "updateConfig", svc |-> s, config |-> config,
                before |-> services[s]]
    /\ UNCHANGED <<aiServiceInstance, env, files, toolCalls, calls, requests>>

\* HaveInstance of a getAIService that keeps no instance
HaveInstanceNever == FALSE

\* getAIService() when the instance exists already
HaveInstance == aiServiceInstance # 0

\* GET /status
GetStatus ==
    /\ IF HaveInstance
       THEN UNCHANGED <<services, aiServiceInstance, registryOps>>
       ELSE /\ registryOps < MaxRegistryOps
            /\ registryOps' = registryOps + 1
            /\ services' = Append(services, AIService(EnvConfig(env)))
            /\ aiServiceInstance' = Len(services) + 1
    /\ last' = [kind |-> "status", svc |-> aiServiceInstance',
                providers |-> getConfiguredProviders(services'[aiServiceInstance']),
                hasAI |-> hasProvider(services'[aiServiceInstance'])]
    /\ UNCHANGED <<env, files, toolCalls, calls, requests>>

\* POST /config that rebuilds the instance in its place
PostConfigInPlace(body) ==
    /\ registryOps < MaxRegistryOps
    /\ registryOps' = registryOps + 1
    /\ services' = IF HaveInstance
                   THEN [services EXCEPT ![aiServiceInstance] = AIService(body)]
                   ELSE Append(services, AIService(body))
    /\ aiServiceInstance' = IF HaveInstance THEN aiServiceInstance ELSE Len(services) + 1
    /\ last' = [kind |-> "postConfig", svc |-> aiServiceInstance', config |-> body,
                previous |-> aiServiceInstance, status |-> 200,
                providers |-> getConfiguredProviders(AIService(body))]
    /\ UNCHANGED <<env, files, toolCalls, calls, requests>>

\* POST /config with a JSON body: configureAIService(body)
PostConfig(body) ==
    /\ registryOps < MaxRegistryOps
    /\ registryOps' = registryOps + 1
    /\ services' = Append(services, AIService(body))
    /\ aiServiceInstance' = Len(services) + 1
    /\ last' = [kind |-> "postConfig", svc |-> Len(services) + 1, config |-> body,
                previous |-> aiServiceInstance, status |-> 200,
                providers |-> getConfiguredProviders(AIService(body))]
    /\ UNCHANGED <<env, files, toolCalls, calls, requests>>

\* POST /config without a body: the constructor throws a TypeError on
\* config.groq and the route answers 400
PostConfigNoBody ==
    /\ last' = [kind |-> "postConfig", svc |-> aiServiceInstance,
                previous |-> aiServiceInstance, status |-> 400]
    /\ UNCHANGED <<services, aiServiceInstance, env, files, toolCalls, calls, registryOps, requests>>

\* service.getProvider(name?) by a caller that holds the service
GetProvider(s, args) ==
    /\ last' = [kind |-> "getProvider", svc |-> s, args |-> args,
                result |-> getProvider(services[s], args)]
    /\ UNCHANGED <<services, aiServiceInstance, env, files, toolCalls, calls, registryOps, requests>>

\* a call of one of the four operations on a service
StartCall(s, op, preferredProvider) ==
    /\ Len(calls) < MaxCalls
    /\ calls' = Append(calls, NewCall(s, op, preferredProvider))
    /\ UNCHANGED <<services, aiServiceInstance, env, files, toolCalls, registryOps, last, requests>>

\* a call of an operation while other calls may be suspended
StartConcurrentCall(s, op, preferredProvider) ==
    /\ Len(calls) < MaxConcurrentCalls
    /\ calls' = Append(calls, NewCall(s, op, preferredProvider))
    /\ UNCHANGED <<services, aiServiceInstance, env, files, toolCalls, registryOps, last, requests>>

\* the backend answers the request of call i
BackendResolve(i, content) ==
    /\ calls[i].status = "awaiting"
    /\ calls' = [calls EXCEPT ![i] = Resolved(@, content)]
    /\ UNCHANGED <<services, aiServiceInstance, env, files, toolCalls, registryOps, last, requests>>

\* the backend request of call i fails
BackendReject(i, thrown) ==
    /\ calls[i].status = "awaiting"
    /\ calls' = [calls EXCEPT ![i] = Rejected(@, thrown, services[calls[i].svc].providers)]
    /\ UNCHANGED <<services, aiServiceInstance, env, files, toolCalls, registryOps, last, requests>>

(***************************************************************************)
(* The routes of the operations (POST /generate, /extract-job,             *)
(* /analyze-resume, /draft-email).  A request is a record of requests: its *)
(* route and body, where its handler stands (state), the scrape or fetch   *)
(* it started (io) and what that threw, the instance getAIService gave it  *)
(* (svc, 0 for none), the call it made (call, 0 for none) and its          *)
(* response.                                                               *)
(***************************************************************************)
\* !body.field
Missing(body, field) == field \notin DOMAIN body \/ ~Truthy(body[field])

\* the provider of the body, "" when there is none
Optional(body, field) == IF field \in DOMAIN body THEN body[field] ELSE ""

\* url.includes('linkedin.com/jobs'), of the URLs of the model
IsLinkedInJob(url) == url = LinkedInUrl

NoResponse == [status |-> 0]

\* res.status(status).json({ error: message })
ErrorResponse(status, message) == [status |-> status, body |-> [error |-> message]]

\* error instanceof Error ? error.message : 'Unknown error'
CaughtMessage(thrown) == IF thrown.isError THEN thrown.message ELSE "Unknown error"

\* the test of the required fields, without the test of their values
InvalidIfAbsent(route, body) ==
    CASE route = "generate" -> "prompt" \notin DOMAIN body
      [] route = "extract-job" -> "text" \notin DOMAIN body /\ "url" \notin DOMAIN body
      [] route = "analyze-resume" ->
            "jobDescription" \notin DOMAIN body \/ "resumeText" \notin DOMAIN body
      [] route = "draft-email" ->
            \/ "recipientName" \notin DOMAIN body
            \/ "companyName" \notin DOMAIN body
            \/ "jobTitle" \notin DOMAIN body

\* the test of the required fields that opens each handler
Invalid(route, body) ==
    CASE route = "generate" -> Missing(body, "prompt")
      [] route = "extract-job" -> Missing(body, "text") /\ Missing(body, "url")
      [] route = "analyze-resume" ->
            Missing(body, "jobDescription") \/ Missing(body, "resumeText")
      [] route = "draft-email" ->
            \/ Missing(body, "recipientName")
            \/ Missing(body, "companyName")
            \/ Missing(body, "jobTitle")

ValidationMessage(route) ==
    CASE route = "generate" -> "prompt is required"
      [] route = "extract-job" -> "Either text or url is required"
      [] route = "analyze-resume" -> "jobDescription and resumeText are required"
      [] route = "draft-email" -> "recipientName, companyName, and jobTitle are required"

RouteOperation(route) ==
    CASE route = "generate" -> "generateText"
      [] route = "extract-job" -> "extractJobDetails"
      [] route = "analyze-resume" -> "analyzeResume"
      [] route = "draft-email" -> "draftEmail"

\* the argument of the operation that its placeholder is built from
RouteInput(route, body, content) ==
    CASE route = "extract-job" -> content
      [] route = "draft-email" -> body.jobTitle
      [] OTHER -> ""

\* CallResponse that answers 200 whatever the call did
CallResponseAlwaysOk(c) ==
    [status |-> 200, body |-> [success |-> TRUE, provider |-> ""]]

\* the response to a call that returned or threw
CallResponse(c) ==
    IF c.status = "threw"
    THEN ErrorResponse(500, c.message)
    ELSE IF c.op = "generateText"
         THEN [status |-> 200, body |-> [success |-> TRUE, text |-> c.result.text,
                                         provider |-> c.result.provider]]
         ELSE [status |-> 200, body |-> [success |-> TRUE, data |-> c.result.data,
                                         provider |-> c.result.provider]]

\* the response of /extract-job to a posting the scraper has read
ScrapedResponse(scraped) ==
    [status |-> 200,
     body |-> [success |-> TRUE,
               data |-> [title |-> scraped.title, company |-> scraped.company,
                         location |-> scraped.location,
                         description |-> scraped.description, source |-> "LinkedIn"],
               provider |-> "linkedin-scraper"]]

\* request k of requests becomes req
Put(k, req) ==
    IF k > Len(requests) THEN Append(requests, req) ELSE [requests EXCEPT ![k] = req]

\* getAIService(): the instance, built from the environment when there is
\* none yet
getAIService ==
    IF HaveInstance
    THEN UNCHANGED <<services, aiServiceInstance, registryOps>>
    ELSE /\ registryOps < MaxRegistryOps
         /\ registryOps' = registryOps + 1
         /\ services' = Append(services, AIService(EnvConfig(env)))
         /\ aiServiceInstance' = Len(services) + 1

\* The end of every handler, from getAIService() to the await of the
\* operation: 503 when the instance has no provider, else the call.
UseService(k, req, content) ==
    /\ getAIService
    /\ IF ~hasProvider(services'[aiServiceInstance'])
       THEN /\ requests' = Put(k, [req EXCEPT !.svc = aiServiceInstance',
                                              !.state = "responded",
                                              !.response = ErrorResponse(503,
                                                  "No AI providers configured")])
            /\ UNCHANGED calls
       ELSE /\ Len(calls) < MaxCalls
            /\ calls' = Append(calls,
                               NewCallOn(services'[aiServiceInstance'], aiServiceInstance',
                                         RouteOperation(req.route),
                                         Optional(req.body, "provider"),
                                         RouteInput(req.route, req.body, content)))
            /\ requests' = Put(k, [req EXCEPT !.svc = aiServiceInstance',
                                              !.state = "calling",
                                              !.call = Len(calls) + 1])

\* A request arrives: the handler up to its first await or to its response.
Receive(route, body) ==
    /\ Len(requests) < MaxRequests
    /\ LET req == [route |-> route, body |-> body, state |-> "received", io |-> <<>>,
                   thrown |-> Undefined, svc |-> 0, call |-> 0, response |-> NoResponse]
       IN IF Invalid(route, body)
          THEN /\ requests' = Append(requests,
                                     [req EXCEPT !.state = "responded",
                                                 !.response = ErrorResponse(400,
                                                     ValidationMessage(route))])
               /\ UNCHANGED <<services, aiServiceInstance, registryOps, calls>>
          ELSE IF route = "extract-job" /\ ~Missing(body, "url")
               THEN /\ requests' = Append(requests,
                          IF IsLinkedInJob(body.url)
                          THEN [req EXCEPT !.state = "scraping", !.io = <<"scrape">>]
                          ELSE [req EXCEPT !.state = "fetching", !.io = <<"fetch">>])
                    /\ UNCHANGED <<services, aiServiceInstance, registryOps, calls>>
               ELSE UseService(Len(requests) + 1, req,
                               IF route = "extract-job" THEN body.text ELSE "")
    /\ UNCHANGED <<env, files, toolCalls, last>>

\* POST /generate
PostGenerate(body) == Receive("generate", body)

\* POST /extract-job
PostExtractJob(body) == Receive("extract-job", body)

\* POST /analyze-resume
PostAnalyzeResume(body) == Receive("analyze-resume", body)

\* POST /draft-email
PostDraftEmail(body) == Receive("draft-email", body)

\* scrapeLinkedInJob resolved: the posting is the answer when it has a
\* title, else its description (or the url) goes to the AI extraction
ScrapeResolve(k, scraped) ==
    /\ k <= Len(requests)
    /\ requests[k].state = "scraping"
    /\ IF Truthy(scraped.title)
       THEN /\ requests' = [requests EXCEPT ![k].state = "responded",
                                            ![k].response = ScrapedResponse(scraped)]
            /\ UNCHANGED <<services, aiServiceInstance, registryOps, calls>>
       ELSE UseService(k, requests[k],
                       IF Truthy(scraped.description)
                       THEN scraped.description ELSE requests[k].body.url)
    /\ UNCHANGED <<env, files, toolCalls, last>>

\* scrapeLinkedInJob threw: the catch block of the handler
ScrapeReject(k, thrown) ==
    /\ k <= Len(requests)
    /\ requests[k].state = "scraping"
    /\ requests' = [requests EXCEPT ![k].state = "responded",
                                    ![k].thrown = thrown,
                                    ![k].response = ErrorResponse(500, CaughtMessage(thrown))]
    /\ UNCHANGED <<services, aiServiceInstance, env, files, toolCalls, calls, registryOps, last>>

\* fetch(url) and response.text() resolved
FetchResolve(k, page) ==
    /\ k <= Len(requests)
    /\ requests[k].state = "fetching"
    /\ UseService(k, requests[k], page)
    /\ UNCHANGED <<env, files, toolCalls, last>>

\* fetch(url) threw: the url itself goes to the AI extraction
FetchReject(k) ==
    /\ k <= Len(requests)
    /\ requests[k].state = "fetching"
    /\ UseService(k, requests[k], requests[k].body.url)
    /\ UNCHANGED <<env, files, toolCalls, last>>

\* the operation of request k returned or threw: the rest of the handler
RouteRespond(k) ==
    /\ k <= Len(requests)
    /\ requests[k].state = "calling"
    /\ calls[requests[k].call].status \in {"returned", "threw"}
    /\ requests' = [requests EXCEPT ![k].state = "responded",
                                    ![k].response = CallResponse(calls[requests[k].call])]
    /\ UNCHANGED <<services, aiServiceInstance, env, files, toolCalls, calls, registryOps, last>>

\* parseAIJson is given a text: last holds the text, then the value parsed
\* from it and the value parsed from the serialization alone
InitParse ==
    /\ services = <<>>
    /\ aiServiceInstance = 0
    /\ env \in Envs
    /\ calls = <<>>
    /\ registryOps = 0
    /\ requests = <<>>
    /\ files = NoFiles
    /\ toolCalls = <<>>
    /\ last \in {[kind |-> "parseInput", input |-> i] : i \in ParseInputs}

ParseAIJson ==
    /\ last.kind = "parseInput"
    /\ last' = [kind |-> "parsed", input |-> last.input,
                result |-> parseAIJson(last.input.text),
                plain |-> parseAIJson(JSONStringify(last.input.value))]
    /\ UNCHANGED <<services, aiServiceInstance, env, files, toolCalls, calls, registryOps, requests>>

(***************************************************************************)
(* saveToFile.  fs.access, fs.mkdir and fs.writeFile are awaited: the      *)
(* handler is suspended three times, and other handlers run meanwhile.     *)
(* A write is taken as one step of the file system.                        *)
(***************************************************************************)
\* the files before the server starts: each path holds the old text or none
InitSave ==
    /\ services = <<>>
    /\ aiServiceInstance = 0
    /\ env \in Envs
    /\ calls = <<>>
    /\ registryOps = 0
    /\ requests = <<>>
    /\ last = NoOp
    /\ files \in [SavePaths -> {Absent, File(OldContent)}]
    /\ toolCalls = <<>>

\* the call up to fs.access(resolved)
SaveToFile(args) ==
    /\ Len(toolCalls) < MaxSaves
    /\ LET resolved == IF validateSaveToFileInput(args)
                       THEN resolve(SaveFilePath(args)) ELSE <<>>
           c == [tool |-> "saveToFile", args |-> args, resolved |-> resolved,
                 state |-> "access", response |-> Pending]
       IN toolCalls' = Append(toolCalls,
            IF ~validateSaveToFileInput(args)
            THEN [c EXCEPT !.state = "responded",
                           !.response = ToolError(<<"Error: Invalid input. Expected { content: string, filename: string }.">>)]
            ELSE IF ~InsideBaseDir(resolved)
            THEN [c EXCEPT !.state = "responded",
                           !.response = ToolError(<<"Error: Invalid path. Directory traversal not allowed.">>)]
            ELSE c)
    /\ UNCHANGED <<services, aiServiceInstance, env, calls, registryOps, last, requests, files>>

\* fs.access has answered: exists && !input.overwrite, then fs.mkdir
SaveAccess(i) ==
    /\ i \in 1..Len(toolCalls)
    /\ toolCalls[i].tool = "saveToFile"
    /\ toolCalls[i].state = "access"
    /\ LET c == toolCalls[i]
           exists == files[c.resolved] # Absent
       IN toolCalls' = [toolCalls EXCEPT ![i] =
            IF exists /\ c.args.overwrite # [value |-> TRUE]
            THEN [c EXCEPT !.state = "responded",
                           !.response = ToolError(<<"File already exists at", c.resolved,
                                                    "Set overwrite=true to replace it.">>)]
            ELSE [c EXCEPT !.state = "mkdir"]]
    /\ UNCHANGED <<services, aiServiceInstance, env, calls, registryOps, last, requests, files>>

\* fs.mkdir has answered, then fs.writeFile
SaveMkdir(i) ==
    /\ i \in 1..Len(toolCalls)
    /\ toolCalls[i].tool = "saveToFile"
    /\ toolCalls[i].state = "mkdir"
    /\ toolCalls' = [toolCalls EXCEPT ![i].state = "writeFile"]
    /\ UNCHANGED <<services, aiServiceInstance, env, calls, registryOps, last, requests, files>>

\* fs.writeFile has written the file, and the handler returns the success
SaveWrite(i) ==
    /\ i \in 1..Len(toolCalls)
    /\ toolCalls[i].tool = "saveToFile"
    /\ toolCalls[i].state = "writeFile"
    /\ files' = [files EXCEPT ![toolCalls[i].resolved] = File(toolCalls[i].args.content)]
    /\ toolCalls' = [toolCalls EXCEPT
            ![i].state = "responded",
            ![i].response = ToolResult([success |-> TRUE, path |-> toolCalls[i].resolved,
                                        message |-> "File saved successfully"])]
    /\ UNCHANGED <<services, aiServiceInstance, env, calls, registryOps, last, requests>>

\* fs.mkdir or fs.writeFile has rejected: the catch block
SaveReject(i, thrown) ==
    /\ i \in 1..Len(toolCalls)
    /\ toolCalls[i].tool = "saveToFile"
    /\ toolCalls[i].state \in {"mkdir", "writeFile"}
    /\ toolCalls' = [toolCalls EXCEPT
            ![i].state = "responded",
            ![i].response = ToolError(<<"Error saving file:", CaughtMessage(thrown)>>)]
    /\ UNCHANGED <<services, aiServiceInstance, env, calls, registryOps, last, requests, files>>

NextSave ==
    \/ \E args \in SaveArgs \cup InvalidSaveArgs : SaveToFile(args)
    \/ \E i \in 1..MaxSaves : SaveAccess(i)
    \/ \E i \in 1..MaxSaves : SaveMkdir(i)
    \/ \E i \in 1..MaxSaves : SaveWrite(i)
    \/ \E i \in 1..MaxSaves, thrown \in FsThrown : SaveReject(i, thrown)

\* calls of saveToFile that overlap
SpecSave == InitSave /\ [][NextSave]_vars

(***************************************************************************)
(* executeCommand.  The child is spawned with the option timeout: when it  *)
(* has run for that long, Node sends it the kill signal (SIGTERM).  The    *)
(* handler answers on the close event or on the error event of the child.  *)
(***************************************************************************)
\* the call up to the await of the promise: validation and spawn
ExecuteCommand(args) ==
    /\ Len(toolCalls) < MaxCommands
    /\ toolCalls' = Append(toolCalls,
         IF ~validateExecuteCommandInput(args)
         THEN [tool |-> "executeCommand", args |-> args, state |-> "responded",
               timeout |-> 0, elapsed |-> 0, killed |-> FALSE,
               response |-> ToolError(<<"Error: Invalid input. Expected { command: string }.">>)]
         ELSE [tool |-> "executeCommand", args |-> args,
               state |-> IF args.command = "nosuch" THEN "failing" ELSE "running",
               timeout |-> CommandTimeout(args), elapsed |-> 0, killed |-> FALSE,
               response |-> Pending])
    /\ UNCHANGED <<services, aiServiceInstance, env, calls, registryOps, last, requests, files>>

Running(c) == c.tool = "executeCommand" /\ c.state = "running"

\* the timer of the option timeout is due and has not fired
TimerDue(c) == Running(c) /\ ~c.killed /\ c.elapsed >= c.timeout

\* time passes for every child that runs; a timer that is due fires first
Tick ==
    /\ \E i \in 1..Len(toolCalls) : Running(toolCalls[i])
    /\ \A i \in 1..Len(toolCalls) :
          ~TimerDue(toolCalls[i]) /\ toolCalls[i].elapsed < MaxElapsed
    /\ toolCalls' = [i \in 1..Len(toolCalls) |->
          IF Running(toolCalls[i])
          THEN [toolCalls[i] EXCEPT !.elapsed = @ + TickMs]
          ELSE toolCalls[i]]
    /\ UNCHANGED <<services, aiServiceInstance, env, calls, registryOps, last, requests, files>>

\* child.on('error'): the promise rejects and the catch block answers
CommandError(i) ==
    /\ i \in 1..Len(toolCalls)
    /\ toolCalls[i].tool = "executeCommand"
    /\ toolCalls[i].state = "failing"
    /\ toolCalls' = [toolCalls EXCEPT
          ![i].state = "responded",
          ![i].response = ToolError(<<"Error executing command:",
                                      CaughtMessage(SpawnError(toolCalls[i].args.command))>>)]
    /\ UNCHANGED <<services, aiServiceInstance, env, calls, registryOps, last, requests, files>>

\* the child has run for the timeout: Node sends it the kill signal
CommandTimeoutFires(i) ==
    /\ i \in 1..Len(toolCalls)
    /\ TimerDue(toolCalls[i])
    /\ toolCalls' = [toolCalls EXCEPT ![i].killed = TRUE]
    /\ UNCHANGED <<services, aiServiceInstance, env, calls, registryOps, last, requests, files>>

\* child.on('close'): resolve({stdout, stderr, exitCode: code || 0}), and
\* the handler returns the result with the duration.  The child has
\* exited by itself (code is a number) or the kill signal has ended it
\* (code is null); a child that handles the signal exits later by itself.
CommandClose(i, code, stdout) ==
    /\ i \in 1..Len(toolCalls)
    /\ Running(toolCalls[i])
    /\ ~TimerDue(toolCalls[i])
    /\ code = Null => toolCalls[i].killed
    /\ toolCalls' = [toolCalls EXCEPT
          ![i].state = "responded",
          ![i].response = ToolResult([stdout |-> stdout, stderr |-> "",
                                      exitCode |-> ExitCodeOrZero(code),
                                      duration |-> toolCalls[i].elapsed])]
    /\ UNCHANGED <<services, aiServiceInstance, env, calls, registryOps, last, requests, files>>

NextCommand ==
    \/ \E args \in CommandArgs \cup InvalidCommandArgs : ExecuteCommand(args)
    \/ Tick
    \/ \E i \in 1..MaxCommands : CommandError(i)
    \/ \E i \in 1..MaxCommands : CommandTimeoutFires(i)
    \/ \E i \in 1..MaxCommands, code \in {Null} \cup {[value |-> x] : x \in ExitCodes},
          stdout \in Outputs : CommandClose(i, code, stdout)

\* calls of executeCommand and the passing of time
SpecCommand == Init /\ [][NextCommand]_vars

(***************************************************************************)
(* searchFiles.  The directory does not change during a search: a call     *)
(* carries the directory it searches.  The handler is suspended at each    *)
(* fs.readdir and fs.readFile; the entries that need no read are passed    *)
(* over in the segment that comes to them.                                 *)
(***************************************************************************)
\* the call up to the first fs.readdir, on a directory of SearchTrees
SearchFiles(args) ==
    /\ Len(toolCalls) < MaxSearches
    /\ \E tree \in SearchTrees :
       LET c == [tool |-> "searchFiles", args |-> args, tree |-> tree,
                 state |-> "readdir", todo |-> <<>>, matches |-> <<>>,
                 lastIndex |-> 0, filesSearched |-> 0, response |-> Pending]
       IN toolCalls' = Append(toolCalls,
            IF ~validateSearchFilesInput(args)
            THEN [c EXCEPT !.state = "responded",
                           !.response = ToolError(<<"Error: Invalid input. Expected { query: string, path: string }.">>)]
            ELSE IF args.query = InvalidQuery
            THEN [c EXCEPT !.state = "responded",
                           !.response = ToolError(<<"Error searching files:",
                                                    CaughtMessage(RegexSyntaxError)>>)]
            ELSE c)
    /\ UNCHANGED <<services, aiServiceInstance, env, calls, registryOps, last, requests, files>>

\* fs.readdir has listed the directory: the loop runs to the first file read
SearchReaddir(i) ==
    /\ i \in 1..Len(toolCalls)
    /\ toolCalls[i].tool = "searchFiles"
    /\ toolCalls[i].state = "readdir"
    /\ LET c == toolCalls[i]
       IN toolCalls' = [toolCalls EXCEPT
            ![i].state = "readFile",
            ![i].todo = SkipFiltered(Traversal(c.tree, <<c.args.path>>,
                                               OrDefault(c.args.recursive, TRUE)),
                                     c.args)]
    /\ UNCHANGED <<services, aiServiceInstance, env, calls, registryOps, last, requests, files>>

\* fs.readdir has rejected: the catch block of the handler
SearchReaddirReject(i, thrown) ==
    /\ i \in 1..Len(toolCalls)
    /\ toolCalls[i].tool = "searchFiles"
    /\ toolCalls[i].state = "readdir"
    /\ toolCalls' = [toolCalls EXCEPT
            ![i].state = "responded",
            ![i].response = ToolError(<<"Error searching files:", CaughtMessage(thrown)>>)]
    /\ UNCHANGED <<services, aiServiceInstance, env, calls, registryOps, last, requests, files>>

\* fs.readFile has answered for the next file: its lines are tested, and
\* the loops go on to the next file read, or end once maxResults matches
\* are collected
SearchReadFile(i) ==
    /\ i \in 1..Len(toolCalls)
    /\ toolCalls[i].tool = "searchFiles"
    /\ toolCalls[i].state = "readFile"
    /\ toolCalls[i].todo # <<>>
    /\ LET c == toolCalls[i]
           file == Head(c.todo)
           maxResults == OrDefault(c.args.maxResults, DefaultMaxResults)
           st == IF ~file.readable
                 THEN [matches |-> c.matches, lastIndex |-> c.lastIndex]
                 ELSE ScanLines(file, 1, [matches |-> c.matches, lastIndex |-> c.lastIndex],
                                c.args, maxResults)
       IN toolCalls' = [toolCalls EXCEPT
            ![i].filesSearched = @ + 1,
            ![i].matches = st.matches,
            ![i].lastIndex = st.lastIndex,
            ![i].todo = IF Len(st.matches) >= maxResults THEN <<>>
                        ELSE SkipFiltered(Tail(c.todo), c.args)]
    /\ UNCHANGED <<services, aiServiceInstance, env, calls, registryOps, last, requests, files>>

\* searchDirectory has returned: the response
SearchRespond(i) ==
    /\ i \in 1..Len(toolCalls)
    /\ toolCalls[i].tool = "searchFiles"
    /\ toolCalls[i].state = "readFile"
    /\ toolCalls[i].todo = <<>>
    /\ toolCalls' = [toolCalls EXCEPT
            ![i].state = "responded",
            ![i].response = ToolResult([matches |-> toolCalls[i].matches,
                                        totalMatches |-> Len(toolCalls[i].matches),
                                        filesSearched |-> toolCalls[i].filesSearched])]
    /\ UNCHANGED <<services, aiServiceInstance, env, calls, registryOps, last, requests, files>>

NextSearch ==
    \/ \E args \in SearchArgs \cup InvalidSearchArgs : SearchFiles(args)
    \/ \E i \in 1..MaxSearches : SearchReaddir(i)
    \/ \E i \in 1..MaxSearches, thrown \in ReaddirThrown : SearchReaddirReject(i, thrown)
    \/ \E i \in 1..MaxSearches : SearchReadFile(i)
    \/ \E i \in 1..MaxSearches : SearchRespond(i)

\* calls of searchFiles
SpecSearch == Init /\ [][NextSearch]_vars

(***************************************************************************)
(* echoText: one segment, no await.                                        *)
(***************************************************************************)
EchoText(args) ==
    /\ Len(toolCalls) < MaxEchoes
    /\ toolCalls' = Append(toolCalls,
          [tool |-> "echoText", args |-> args, state |-> "responded",
           response |-> echoText(args)])
    /\ UNCHANGED <<services, aiServiceInstance, env, calls, registryOps, last, requests, files>>

NextEcho == \E args \in EchoArgs : EchoText(args)

\* calls of echoText
SpecEcho == Init /\ [][NextEcho]_vars

(***************************************************************************)
(* summarizeDirectory: fs.access and fs.readdir are awaited.               *)
(***************************************************************************)
\* the call up to fs.access(resolvedPath)
SummarizeDirectory(args) ==
    /\ Len(toolCalls) < MaxSummaries
    /\ toolCalls' = Append(toolCalls,
          IF ~validateSummarizeDirectoryInput(args)
          THEN [tool |-> "summarizeDirectory", args |-> args, state |-> "responded",
                entries |-> <<>>,
                response |-> ToolError(<<"Error: Invalid input. Expected { path: string } where path is non-empty.">>)]
          ELSE [tool |-> "summarizeDirectory", args |-> args, state |-> "access",
                entries |-> <<>>, response |-> Pending])
    /\ UNCHANGED <<services, aiServiceInstance, env, calls, registryOps, last, requests, files>>

\* fs.access has answered: the path exists or does not
SummarizeAccess(i, exists) ==
    /\ i \in 1..Len(toolCalls)
    /\ toolCalls[i].tool = "summarizeDirectory"
    /\ toolCalls[i].state = "access"
    /\ toolCalls' = [toolCalls EXCEPT ![i] =
          IF exists THEN [toolCalls[i] EXCEPT !.state = "readdir"]
          ELSE [toolCalls[i] EXCEPT
                    !.state = "responded",
                    !.response = ToolError(<<"The directory", toolCalls[i].args.path,
                                             "doesn't seem to exist. Please check the path and try again.">>)]]
    /\ UNCHANGED <<services, aiServiceInstance, env, calls, registryOps, last, requests, files>>

\* fs.readdir has listed the directory: the summary
SummarizeReaddir(i, entries) ==
    /\ i \in 1..Len(toolCalls)
    /\ toolCalls[i].tool = "summarizeDirectory"
    /\ toolCalls[i].state = "readdir"
    /\ toolCalls' = [toolCalls EXCEPT
          ![i].state = "responded",
          ![i].entries = entries,
          ![i].response = ToolResult(summarize(toolCalls[i].args.path, entries))]
    /\ UNCHANGED <<services, aiServiceInstance, env, calls, registryOps, last, requests, files>>

\* fs.readdir has rejected: the catch block
SummarizeReaddirReject(i, thrown) ==
    /\ i \in 1..Len(toolCalls)
    /\ toolCalls[i].tool = "summarizeDirectory"
    /\ toolCalls[i].state = "readdir"
    /\ toolCalls' = [toolCalls EXCEPT
          ![i].state = "responded",
          ![i].response = ToolError(<<"Oops! Something went wrong reading",
                                      toolCalls[i].args.path, CaughtMessage(thrown)>>)]
    /\ UNCHANGED <<services, aiServiceInstance, env, calls, registryOps, last, requests, files>>

NextSummarize ==
    \/ \E args \in SummarizeArgs : SummarizeDirectory(args)
    \/ \E i \in 1..MaxSummaries, exists \in BOOLEAN : SummarizeAccess(i, exists)
    \/ \E i \in 1..MaxSummaries, entries \in Directories : SummarizeReaddir(i, entries)
    \/ \E i \in 1..MaxSummaries : SummarizeReaddirReject(i, NotADirectory)

\* calls of summarizeDirectory
SpecSummarize == Init /\ [][NextSummarize]_vars

\* the operations on the registries and on the process-wide instance
NextRegistry ==
    \/ \E config \in Configs : NewService(config)
    \/ \E s \in 1..Len(services), config \in Configs : UpdateConfig(s, config)
    \/ GetStatus
    \/ \E body \in Configs : PostConfig(body)
    \/ PostConfigNoBody

\* the calls of the operations and the answers of the backends
NextCalls ==
    \/ \E s \in 1..Len(services), op \in Operations, p \in Preferred : StartCall(s, op, p)
    \/ \E i \in 1..Len(calls), content \in Contents : BackendResolve(i, content)
    \/ \E i \in 1..Len(calls), thrown \in Thrown : BackendReject(i, thrown)

Next == NextRegistry \/ NextCalls

Spec == Init /\ [][Next]_vars

\* the request k of call i is with the backend
PendingAttempt(i, k) ==
    /\ i <= Len(calls)
    /\ k <= Len(calls[i].attempts)
    /\ calls[i].attempts[k].outcome = "pending"

\* Each backend request of a call ends: the promise that the loop awaits
\* is settled, with an answer or with an error.  A trial order has at most
\* two names more than providerOrder.
SpecFair ==
    Spec /\ \A i \in 1..MaxCalls : \A k \in 1..(Len(providerOrder) + 2) :
                []<>(~PendingAttempt(i, k))

\* the registries alone, without any call of an operation
SpecRegistry == Init /\ [][NextRegistry]_vars

\* calls that overlap: services, calls of two of the operations and the
\* answers of the backends
NextConcurrent ==
    \/ \E config \in Configs : NewService(config)
    \/ \E s \in 1..Len(services), op \in ConcurrentOperations,
          p \in ConcurrentPreferred :
            StartConcurrentCall(s, op, p)
    \/ \E i \in 1..Len(calls), content \in Contents : BackendResolve(i, content)
    \/ \E i \in 1..Len(calls), thrown \in Thrown : BackendReject(i, thrown)

SpecConcurrent == Init /\ [][NextConcurrent]_vars

\* the reads of a registry
NextQueries ==
    \E s \in 1..Len(services), args \in ProviderArgs : GetProvider(s, args)

\* the registries with their reads, without any call of an operation
SpecQueries == Init /\ [][NextRegistry \/ NextQueries]_vars

\* the routes of the operations, with POST /config and the backends
NextRoutes ==
    \/ \E body \in Configs : PostConfig(body)
    \/ \E body \in GenerateBodies : PostGenerate(body)
    \/ \E body \in ExtractBodies : PostExtractJob(body)
    \/ \E body \in AnalyzeBodies : PostAnalyzeResume(body)
    \/ \E body \in DraftBodies : PostDraftEmail(body)
    \/ \E k \in 1..MaxRequests, scraped \in Scraped : ScrapeResolve(k, scraped)
    \/ \E k \in 1..MaxRequests, thrown \in Thrown : ScrapeReject(k, thrown)
    \/ \E k \in 1..MaxRequests, page \in Pages : FetchResolve(k, page)
    \/ \E k \in 1..MaxRequests : FetchReject(k)
    \/ \E i \in 1..Len(calls), content \in Contents : BackendResolve(i, content)
    \/ \E i \in 1..Len(calls), thrown \in Thrown : BackendReject(i, thrown)
    \/ \E k \in 1..MaxRequests : RouteRespond(k)

SpecRoutes == Init /\ [][NextRoutes]_vars

\* The rest of a handler is a continuation in the microtask queue, which
\* the event loop runs.
SpecRoutesFair == SpecRoutes /\ WF_vars(\E k \in 1..MaxRequests : RouteRespond(k))

\* parseAIJson alone, on the texts of ParseInputs
SpecParse == InitParse /\ [][ParseAIJson]_vars

TypeOK ==
    /\ aiServiceInstance \in 0..Len(services)
    /\ Len(services) <= MaxRegistryOps
    /\ registryOps \in 0..MaxRegistryOps
    /\ Len(calls) <= MaxCalls

(***************************************************************************)
(* Notions the properties share.                                           *)
(***************************************************************************)
CallIds == 1..Len(calls)

\* the position of a name in a sequence that holds it
Pos(seq, x) == CHOOSE p \in 1..Len(seq) : seq[p] = x /\ \A q \in 1..(p - 1) : seq[q] # x

Names(attempts) == {attempts[k].name : k \in 1..Len(attempts)}

Finished(c) == c.status \in {"returned", "threw"}

\* the payload of the value an operation returned
Payload(c) == IF c.op = "generateText" THEN c.result.text ELSE c.result.data

\* the names a call was asked to try, before duplicates are dropped
Requested(c) ==
    (IF c.preferredProvider = "" THEN <<>> ELSE <<c.preferredProvider>>)
        \o <<c.defaultAtCall, "groq", "claude", "gemini">>

(***************************************************************************)
(* C1: the trial order of every call is the preferred provider (if given), *)
(* then the default provider of the service at the time of the call, then  *)
(* groq, claude, gemini, each name at its first position only; the         *)
(* backends are invoked in that order, and without a preferred provider    *)
(* the default provider comes first.                                       *)
(***************************************************************************)
C1_TrialOrder ==
    \A i \in CallIds :
        LET c == calls[i]
            req == Requested(c)
        IN /\ Range(c.order) = Range(req)
           /\ \A p, q \in 1..Len(c.order) :
                p < q => /\ c.order[p] # c.order[q]
                         /\ Pos(req, c.order[p]) < Pos(req, c.order[q])
           /\ c.preferredProvider = "" => c.order[1] = c.defaultAtCall
           /\ c.preferredProvider # "" => c.order[1] = c.preferredProvider
           /\ \A k, l \in 1..Len(c.attempts) :
                k < l => Pos(c.order, c.attempts[k].name) < Pos(c.order, c.attempts[l].name)

\* without a preferred provider, the default gemini was tried first and
\* failed, and groq after it
C1_Witness ==
    \E i \in CallIds :
        /\ calls[i].preferredProvider = ""
        /\ calls[i].defaultAtCall = "gemini"
        /\ Len(calls[i].attempts) >= 2
        /\ calls[i].attempts[1].name = "gemini"
        /\ calls[i].attempts[2].name = "groq"

(***************************************************************************)
(* C2: when a backend request succeeds the operation returns that result   *)
(* with that provider's name at once: the successful attempt is the last   *)
(* attempt of the call, no name after it in the trial order was invoked,   *)
(* and a call that has returned invokes nothing any more.                  *)
(***************************************************************************)
ReturnedAtOnce(c) ==
    /\ c.attempts # <<>>
    /\ c.attempts[Len(c.attempts)].outcome = "succeeded"
    /\ c.attempts[Len(c.attempts)].name = c.result.provider
    /\ \A k \in 1..Len(c.attempts) :
         Pos(c.order, c.attempts[k].name) <= Pos(c.order, c.result.provider)
    /\ \A k \in 1..(Len(c.attempts) - 1) : c.attempts[k].outcome = "failed"

C2_StopAtFirstSuccess ==
    /\ [](\A i \in CallIds : calls[i].status = "returned" => ReturnedAtOnce(calls[i]))
    /\ [][\A i \in CallIds :
            calls[i].status = "returned" => calls'[i] = calls[i]]_vars

\* groq and gemini registered, groq preferred by default and succeeding:
\* gemini was never invoked
C2_Witness ==
    \E i \in CallIds :
        /\ calls[i].status = "returned"
        /\ calls[i].result.provider = "groq"
        /\ {"groq", "gemini"} \subseteq Range(getConfiguredProviders(services[calls[i].svc]))
        /\ Names(calls[i].attempts) = {"groq"}

(***************************************************************************)
(* C3: the provider a call returns is the first name of the trial order    *)
(* whose backend request succeeded, the payload is what that backend       *)
(* answered, and every name before it in the trial order was either not    *)
(* registered when the loop came to it or was invoked and failed.          *)
(***************************************************************************)
C3_FirstSuccess ==
    \A i \in CallIds :
        LET c == calls[i]
            won == Pos(c.order, c.result.provider)
        IN c.status = "returned" =>
            /\ c.result.provider \in Range(c.order)
            /\ \E k \in 1..Len(c.attempts) :
                 /\ c.attempts[k].name = c.result.provider
                 /\ c.attempts[k].outcome = "succeeded"
                 /\ c.op = "generateText" => c.result.text = c.attempts[k].content
                 /\ c.op # "generateText" =>
                      c.result.data = ProviderResult(c.op, c.attempts[k].content, c.input)
            /\ \A p \in 1..(won - 1) :
                 \/ c.order[p] \in Range(c.skipped)
                 \/ \E k \in 1..Len(c.attempts) :
                      /\ c.attempts[k].name = c.order[p]
                      /\ c.attempts[k].outcome = "failed"

\* groq failed and gemini answered: the call returned gemini's text
C3_Witness ==
    \E i \in CallIds :
        /\ calls[i].status = "returned"
        /\ calls[i].op = "generateText"
        /\ calls[i].result.provider = "gemini"
        /\ Len(calls[i].attempts) = 2
        /\ calls[i].attempts[1] = [name |-> "groq", outcome |-> "failed", error |-> "API error"]
        /\ calls[i].result.text = calls[i].attempts[2].content

(***************************************************************************)
(* C4: when every attempt of a call failed, the call fails with one error  *)
(* whose message holds one entry "<name>: <message>" per failed attempt,   *)
(* in the order of the attempts, each with the name of the provider that   *)
(* failed and the text of its error.                                       *)
(***************************************************************************)
\* "\n<name>: <message>" for every attempt, in order
RECURSIVE AttemptLines(_)
AttemptLines(attempts) ==
    IF attempts = <<>> THEN ""
    ELSE "\n" \o Head(attempts).name \o ": " \o Head(attempts).error
            \o AttemptLines(Tail(attempts))

C4_ExhaustionEntries ==
    \A i \in CallIds :
        LET c == calls[i]
        IN (c.status = "threw" /\ c.attempts # <<>>) =>
            /\ c.result = Undefined
            /\ \A k \in 1..Len(c.attempts) : c.attempts[k].outcome = "failed"
            /\ Len(c.errors) = Len(c.attempts)
            /\ \A k \in 1..Len(c.errors) :
                 c.errors[k] = c.attempts[k].name \o ": " \o c.attempts[k].error
            /\ c.message = "All providers failed:" \o AttemptLines(c.attempts)

\* only groq registered and throwing: the message names groq and its error
C4_Witness ==
    \E i \in CallIds :
        /\ calls[i].status = "threw"
        /\ calls[i].providersAtCall = <<"groq">>
        /\ calls[i].errors = <<"groq: API error">>
        /\ calls[i].message = "All providers failed:\ngroq: API error"

\* two providers failed one after the other: two entries, in that order
C4_WitnessTwo ==
    \E i \in CallIds :
        /\ calls[i].status = "threw"
        /\ Len(calls[i].errors) = 2
        /\ calls[i].attempts[1].error # calls[i].attempts[2].error

(***************************************************************************)
(* C5: on a service without any registered provider each of the four       *)
(* operations fails with an error, without invoking a backend, and never   *)
(* returns a value.                                                        *)
(***************************************************************************)
C5_NoProviderFails ==
    \A i \in CallIds :
        calls[i].providersAtCall = <<>> =>
            /\ calls[i].status = "threw"
            /\ calls[i].result = Undefined
            /\ calls[i].attempts = <<>>

\* draftEmail was called on a service without providers and threw
C5_Witness ==
    \E i \in CallIds :
        /\ calls[i].providersAtCall = <<>>
        /\ ~hasProvider(services[calls[i].svc])
        /\ calls[i].op = "draftEmail"
        /\ calls[i].status = "threw"

(***************************************************************************)
(* C6 as the specification states it: the message of the exhaustion error  *)
(* is the newline-joined error log and nothing more (the empty string when *)
(* no provider was attempted).                                             *)
(***************************************************************************)
C6_Original ==
    \A i \in CallIds :
        calls[i].status = "threw" => calls[i].message = Join(calls[i].errors)

(***************************************************************************)
(* C6, amended: the message of the exhaustion error is the line            *)
(* "All providers failed:" and a newline, followed by the newline-joined   *)
(* error log; when no provider was attempted it is that line and the       *)
(* newline alone.                                                          *)
(***************************************************************************)
C6_PrefixedMessage ==
    \A i \in CallIds :
        calls[i].status = "threw" =>
            /\ calls[i].errors = <<>> => calls[i].message = "All providers failed:\n"
            /\ calls[i].errors # <<>> =>
                 calls[i].message = "All providers failed:\n" \o Join(calls[i].errors)

\* an exhaustion without any attempt, whose message is not empty
C6_Witness ==
    \E i \in CallIds :
        /\ calls[i].status = "threw"
        /\ calls[i].errors = <<>>
        /\ calls[i].message = "All providers failed:\n"

(***************************************************************************)
(* C7: a name of the trial order that is not registered when the loop      *)
(* comes to it is passed over: no backend is invoked for it, the error log *)
(* gets no entry for it, and the loop goes on to the next name.            *)
(***************************************************************************)
\* the positions of the trial order the loop visits in one step of call i
Visited(i) ==
    (IF i \in CallIds THEN calls[i].idx + 1 ELSE 1)
        .. (IF calls'[i].idx > Len(calls'[i].order)
            THEN Len(calls'[i].order) ELSE calls'[i].idx)

\* the step runs the loop of call i: the call begins, or an attempt failed
LoopRuns(i) ==
    \/ i \notin CallIds
    \/ /\ calls[i].status = "awaiting"
       /\ calls'[i] # calls[i]
       /\ calls'[i].status # "returned"

Failures(attempts) == {k \in 1..Len(attempts) : attempts[k].outcome = "failed"}

C7_UnregisteredSkipped ==
    [][\A i \in 1..Len(calls') :
         LET c == calls'[i]
         IN LoopRuns(i) =>
              /\ \A p \in Visited(i) :
                   ~MapHas(services[c.svc].providers, c.order[p]) =>
                      /\ c.order[p] \notin Names(c.attempts)
                      /\ c.order[p] \in Range(c.skipped)
                      /\ c.idx > p
              /\ Len(c.errors) = Cardinality(Failures(c.attempts))
              /\ Cardinality(Names(c.attempts)) + Len(c.skipped)
                     = (IF c.status = "awaiting" THEN c.idx ELSE c.idx - 1)]_vars

\* the unknown preferred provider mistral and the unregistered groq were
\* passed over, and gemini answered
C7_Witness ==
    \E i \in CallIds :
        /\ calls[i].preferredProvider = "mistral"
        /\ calls[i].skipped = <<"mistral", "groq", "claude">>
        /\ calls[i].status = "returned"
        /\ calls[i].errors = <<>>
        /\ calls[i].result.provider = "gemini"

(***************************************************************************)
(* C8: after new AIService(config) the configured providers are exactly    *)
(* the kinds whose block is present in config with a non-empty apiKey,     *)
(* each once; hasProvider() tells whether there is one; and the instance   *)
(* exists for every config.                                                *)
(***************************************************************************)
\* the kinds a configuration gives a credential for
Credentialed(config) ==
    {k \in {"groq", "claude", "gemini"} : k \in DOMAIN config /\ config[k].apiKey # ""}

Constructed ==
    \/ last.kind = "new"
    \/ last.kind = "postConfig" /\ last.status = 200

C8_ConstructorRegisters ==
    Constructed =>
        /\ last.svc \in 1..Len(services)
        /\ Range(getConfiguredProviders(services[last.svc])) = Credentialed(last.config)
        /\ Len(getConfiguredProviders(services[last.svc]))
               = Cardinality(Credentialed(last.config))
        /\ hasProvider(services[last.svc]) <=> Credentialed(last.config) # {}

\* a block with an empty apiKey next to one with a key: only the second
\* is registered
C8_Witness ==
    /\ last.kind = "new"
    /\ last.config = [groq |-> [apiKey |-> ""], gemini |-> [apiKey |-> "k1"]]
    /\ getConfiguredProviders(services[last.svc]) = <<"gemini">>

\* no credential at all, and all three
C8_WitnessNone ==
    /\ last.kind = "new"
    /\ Credentialed(last.config) = {}
    /\ ~hasProvider(services[last.svc])

C8_WitnessAll ==
    /\ last.kind = "new"
    /\ Cardinality(Range(getConfiguredProviders(services[last.svc]))) = 3

(***************************************************************************)
(* C9: updateConfig(partial) merges: every kind partial gives a non-empty  *)
(* apiKey for is registered afterwards, every provider whose kind is       *)
(* absent from partial is registered as before with the same descriptor,   *)
(* and the default provider is as before unless partial gives one.         *)
(***************************************************************************)
C9_UpdateMerges ==
    last.kind = "updateConfig" =>
        LET now == services[last.svc]
            before == last.before
            partial == last.config
        IN /\ \A k \in Credentialed(partial) :
                /\ MapHas(now.providers, k)
                /\ MapGet(now.providers, k).apiKey = partial[k].apiKey
           /\ \A k \in Kinds \ DOMAIN partial :
                MapGet(now.providers, k) = MapGet(before.providers, k)
           /\ "defaultProvider" \notin DOMAIN partial =>
                now.defaultProvider = before.defaultProvider
           /\ now.defaultProvider # before.defaultProvider =>
                now.defaultProvider = partial.defaultProvider

\* a provider the partial configuration does not name was kept, next to
\* one the partial configuration added
C9_Witness ==
    /\ last.kind = "updateConfig"
    /\ \E k \in Kinds \ DOMAIN last.config : MapHas(last.before.providers, k)
    /\ \E k \in Credentialed(last.config) : ~MapHas(last.before.providers, k)
    /\ last.before.defaultProvider # "groq"
    /\ "defaultProvider" \notin DOMAIN last.config

\* from an empty service, updateConfig({groq: {apiKey}}) registers groq
C9_WitnessFromEmpty ==
    /\ last.kind = "updateConfig"
    /\ ~hasProvider(last.before)
    /\ last.config = [groq |-> [apiKey |-> "k1"]]
    /\ getConfiguredProviders(services[last.svc]) = <<"groq">>

(***************************************************************************)
(* C10: POST /config merges into the process-wide service: every provider  *)
(* that was registered before and is not named in the body is registered   *)
(* afterwards (GET /status reports the registered providers of the         *)
(* process-wide service), and the default provider is kept when the body   *)
(* gives none.                                                             *)
(***************************************************************************)
C10_PostConfigMerges ==
    (last.kind = "postConfig" /\ last.status = 200 /\ last.previous # 0) =>
        LET now == services[aiServiceInstance]
            before == services[last.previous]
        IN /\ \A k \in Range(getConfiguredProviders(before)) \ DOMAIN last.config :
                k \in Range(getConfiguredProviders(now))
           /\ "defaultProvider" \notin DOMAIN last.config =>
                now.defaultProvider = before.defaultProvider

\* what GET /status answers is what the process-wide service holds
StatusReportsInstance ==
    last.kind = "status" =>
        /\ last.svc = aiServiceInstance
        /\ last.providers = getConfiguredProviders(services[aiServiceInstance])
        /\ last.hasAI = hasProvider(services[aiServiceInstance])

(***************************************************************************)
(* C11: getProvider(name) returns the provider registered under exactly    *)
(* that name, or undefined when none is, and the returned provider's name  *)
(* is the requested name; getProvider() without a name returns the default *)
(* provider when it is registered, otherwise some registered provider when *)
(* the registry is not empty, otherwise undefined.                         *)
(***************************************************************************)
\* the registered provider of a name, of a registry that holds the name
Registered(service, name) ==
    service.providers[CHOOSE i \in 1..Len(service.providers) :
                          service.providers[i].key = name].value

\* what getProvider answers when it is given no name
DefaultOrSome(service, result) ==
    IF MapHas(service.providers, service.defaultProvider)
    THEN result = Registered(service, service.defaultProvider)
    ELSE IF Len(service.providers) > 0
         THEN \E i \in 1..Len(service.providers) : result = service.providers[i].value
         ELSE result = Undefined

\* what getProvider answers when it looks a name up
ByName(service, name, result) ==
    IF MapHas(service.providers, name)
    THEN result = Registered(service, name) /\ result.name = name
    ELSE result = Undefined

C11_WitnessNamed ==
    /\ last.kind = "getProvider"
    /\ last.args = <<"gemini">>
    /\ last.result # Undefined
    /\ last.result.name = "gemini"

\* getProvider("") answers the default provider
C11_WitnessEmptyName ==
    /\ last.kind = "getProvider"
    /\ last.args = <<"">>
    /\ last.result # Undefined

(***************************************************************************)
(* C12: within one call the providers are tried one at a time: a backend   *)
(* request starts only after the request of the provider attempted before  *)
(* it has failed, so a call never has two backend requests in flight.      *)
(***************************************************************************)
\* the positions of the attempts of a call whose request is in flight
InFlight(c) == {k \in 1..Len(c.attempts) : c.attempts[k].outcome = "pending"}

C12_OneAtATime ==
    \A i \in CallIds :
        /\ Cardinality(InFlight(calls[i])) <= 1
        /\ \A k \in 1..(Len(calls[i].attempts) - 1) :
                calls[i].attempts[k].outcome = "failed"
        /\ (calls[i].status = "awaiting") = (InFlight(calls[i]) # {})

\* a call whose first request failed is waiting for its second one
C12_Witness ==
    \E i \in CallIds :
        /\ Len(calls[i].attempts) = 2
        /\ calls[i].attempts[1].outcome = "failed"
        /\ calls[i].attempts[2].outcome = "pending"
        /\ calls[i].status = "awaiting"

(***************************************************************************)
(* C13: a call observes one snapshot of the registry: an updateConfig that *)
(* runs while the call waits for a backend changes neither the providers   *)
(* the call goes on to attempt nor the descriptors it uses.                *)
(***************************************************************************)
C13_SnapshotPerCall ==
    \A i \in CallIds :
        /\ \A k \in 1..Len(calls[i].attempts) :
                calls[i].attempts[k].name \in Range(calls[i].providersAtCall)
        /\ calls[i].status = "awaiting" =>
                calls[i].provider = MapGet(calls[i].registryAtCall,
                                           calls[i].order[calls[i].idx])

(***************************************************************************)
(* C14: in extractJobDetails, analyzeResume and draftEmail a backend       *)
(* response that cannot be parsed as JSON after fence stripping is treated *)
(* like a transport error: the attempt counts as failed, an entry for the  *)
(* provider is recorded in the error log and the next provider is tried.   *)
(***************************************************************************)
\* the operations whose backend response is parsed
Structured == Operations \ {"generateText"}

\* attempt k of call i was answered with a text that does not parse
AnsweredUnparsable(i, k) ==
    /\ calls[i].op \in Structured
    /\ calls[i].attempts[k].outcome = "succeeded"
    /\ ~parseAIJson(calls[i].attempts[k].content).ok

\* the statement as it stands: no attempt that was answered with such a
\* text ends the call
C14_Original ==
    \A i \in CallIds : \A k \in 1..Len(calls[i].attempts) : ~AnsweredUnparsable(i, k)

\* C14, amended: the provider answers such a response with the placeholder
\* payload of the operation, so the attempt succeeds: the call returns that
\* payload with the name of the provider, nothing is added to the error
\* log and no later provider is tried.
C14_PlaceholderOnParseFailure ==
    \A i \in CallIds : \A k \in 1..Len(calls[i].attempts) :
        AnsweredUnparsable(i, k) =>
            /\ calls[i].status = "returned"
            /\ calls[i].result.provider = calls[i].attempts[k].name
            /\ calls[i].op = "extractJobDetails" =>
                    calls[i].result.data = [title |-> "", company |-> "", location |-> "",
                                            description |-> "job text"]
            /\ calls[i].op = "analyzeResume" =>
                    calls[i].result.data =
                        [matchScore |-> 50, strengths |-> <<>>, gaps |-> <<>>,
                         recommendations |-> <<"Unable to complete AI analysis">>,
                         keywords |-> [matched |-> <<>>, missing |-> <<>>]]
            /\ calls[i].op = "draftEmail" =>
                    calls[i].result.data = [subject |-> "Reaching out about Engineer",
                                            body |-> "Unable to generate email draft.",
                                            confidence |-> 0]
            /\ k = Len(calls[i].attempts)
            /\ Len(calls[i].errors) = k - 1
            /\ \A e \in 1..Len(calls[i].errors) :
                    calls[i].errors[e] =
                        ErrorEntry(calls[i].attempts[e].name, calls[i].attempts[e].error)

\* analyzeResume returned the placeholder of the second provider it tried,
\* while a provider after it is registered
C14_Witness ==
    \E i \in CallIds :
        /\ Len(calls[i].attempts) = 2
        /\ AnsweredUnparsable(i, 2)
        /\ calls[i].op = "analyzeResume"
        /\ calls[i].result.data.matchScore = 50
        /\ \E k \in (calls[i].idx + 1)..Len(calls[i].order) :
                MapHas(services[calls[i].svc].providers, calls[i].order[k])

(***************************************************************************)
(* C15: calls that overlap on one service are independent: each has its    *)
(* own trial order and its own error log, the outcome and the message of a *)
(* call hold the attempts of that call only, a step of one call leaves the *)
(* other calls as they are, and two calls can wait for the backend of the  *)
(* same provider at the same time.                                         *)
(***************************************************************************)
\* the error log a call has by its own attempts
OwnLog(c) ==
    [e \in 1..Cardinality(Failures(c.attempts)) |->
        ErrorEntry(c.attempts[e].name, c.attempts[e].error)]

\* call i holds nothing but what its own arguments and attempts give
OwnOutcome(i) ==
    /\ calls[i].order = TrialOrder(calls[i].preferredProvider, calls[i].defaultAtCall)
    /\ calls[i].errors = OwnLog(calls[i])
    /\ calls[i].status = "threw" => calls[i].message = ExhaustionMessage(OwnLog(calls[i]))
    /\ calls[i].status = "returned" =>
            /\ calls[i].result.provider = calls[i].attempts[Len(calls[i].attempts)].name
            /\ Payload(calls[i]) =
                    ProviderResult(calls[i].op,
                                   calls[i].attempts[Len(calls[i].attempts)].content,
                                   calls[i].input)
    /\ calls[i].status = "awaiting" =>
            calls[i].attempts[Len(calls[i].attempts)] =
                [name |-> calls[i].order[calls[i].idx], outcome |-> "pending"]

\* a step that changes a call changes no other call
OneCallPerStep ==
    \A i \in CallIds : \A j \in CallIds \ {i} :
        calls'[i] # calls[i] => calls'[j] = calls[j]

C15_IndependentCalls == [](\A i \in CallIds : OwnOutcome(i)) /\ [][OneCallPerStep]_vars

\* two calls of one service wait for the same provider at the same time,
\* each after a failure of its own
C15_Witness ==
    /\ Len(calls) = 2
    /\ calls[1].svc = calls[2].svc
    /\ calls[1].status = "awaiting" /\ calls[2].status = "awaiting"
    /\ calls[1].provider = calls[2].provider
    /\ Len(calls[1].errors) = 1 /\ Len(calls[2].errors) = 1
    /\ calls[1].errors # calls[2].errors

\* a call has failed with one entry while the other call of the service,
\* which tried the same provider, has returned
C15_WitnessOutcomes ==
    /\ Len(calls) = 2
    /\ calls[1].svc = calls[2].svc
    /\ calls[1].status = "threw" /\ Len(calls[1].errors) = 1
    /\ calls[2].status = "returned" /\ Len(calls[2].attempts) = 1
    /\ calls[2].attempts[1].name = calls[1].attempts[1].name

(***************************************************************************)
(* Notions the properties of the routes share.                             *)
(***************************************************************************)
RequestIds == 1..Len(requests)

\* a field of a body is missing or empty
Empty(body, field) == field \notin DOMAIN body \/ body[field] = ""

\* the request lacks the fields its route requires
Lacks(r) ==
    CASE r.route = "generate" -> Empty(r.body, "prompt")
      [] r.route = "extract-job" -> Empty(r.body, "text") /\ Empty(r.body, "url")
      [] r.route = "analyze-resume" ->
            Empty(r.body, "jobDescription") \/ Empty(r.body, "resumeText")
      [] r.route = "draft-email" ->
            \/ Empty(r.body, "recipientName")
            \/ Empty(r.body, "companyName")
            \/ Empty(r.body, "jobTitle")

\* the requests that a step received
Arrived == (Len(requests) + 1)..Len(requests')

(***************************************************************************)
(* C16: a request to /generate, /extract-job, /analyze-resume or           *)
(* /draft-email that lacks its required fields is answered 400 with the    *)
(* message of its route before anything else is done: no operation of the  *)
(* service, no scrape and no fetch is started, the process-wide instance   *)
(* is not even asked for, whether or not a provider is configured.         *)
(***************************************************************************)
Answered400(r) ==
    /\ r.state = "responded"
    /\ r.response.status = 400
    /\ r.response.body =
            [error |-> CASE r.route = "generate" -> "prompt is required"
                         [] r.route = "extract-job" -> "Either text or url is required"
                         [] r.route = "analyze-resume" ->
                                "jobDescription and resumeText are required"
                         [] r.route = "draft-email" ->
                                "recipientName, companyName, and jobTitle are required"]
    /\ r.io = <<>> /\ r.svc = 0 /\ r.call = 0

C16_WitnessNoInstance ==
    \E k \in RequestIds :
        /\ requests[k].route = "draft-email"
        /\ "jobTitle" \notin DOMAIN requests[k].body
        /\ requests[k].response.status = 400
        /\ aiServiceInstance = 0

(***************************************************************************)
(* C17: a valid request to /generate, /analyze-resume or /draft-email, and *)
(* a request to /extract-job that reaches the AI extraction, is answered   *)
(* 503 "No AI providers configured" when the process-wide service has no   *)
(* registered provider, and no operation of the service is called.         *)
(***************************************************************************)
\* request k asked for the process-wide service in this step
AsksForService(k) ==
    /\ requests'[k].svc # 0
    /\ k \in RequestIds => requests[k].svc = 0

C17_NoProvider503 ==
    /\ [](\A k \in RequestIds :
            /\ (~Lacks(requests[k])
                    /\ (requests[k].route # "extract-job" \/ requests[k].io = <<>>)) =>
                    requests[k].svc # 0
            /\ (requests[k].svc # 0 /\ Len(services[requests[k].svc].providers) = 0) =>
                    /\ requests[k].state = "responded"
                    /\ requests[k].response =
                            [status |-> 503,
                             body |-> [error |-> "No AI providers configured"]]
                    /\ requests[k].call = 0)
    /\ [][\A k \in 1..Len(requests') :
            AsksForService(k) =>
                /\ requests'[k].svc = aiServiceInstance'
                /\ Len(services'[aiServiceInstance'].providers) = 0 => calls' = calls]_vars

\* /extract-job fetched its page and then found no provider
C17_Witness ==
    \E k \in RequestIds :
        /\ requests[k].route = "extract-job"
        /\ requests[k].io = <<"fetch">>
        /\ requests[k].response.status = 503
        /\ calls = <<>>

\* /generate found no provider in the instance that POST /config installed
C17_WitnessConfigured ==
    \E k \in RequestIds :
        /\ requests[k].route = "generate"
        /\ requests[k].response.status = 503
        /\ last.kind = "postConfig"
        /\ requests[k].svc = last.svc

(***************************************************************************)
(* C18: a valid request on a service with a provider whose operation fails *)
(* with the exhaustion of the fallback, or with any other thrown error, is *)
(* answered 500 with {error: the message of the error}: it is never        *)
(* answered 200 and never left without a response.                         *)
(***************************************************************************)
\* the operation of request k has thrown
OperationThrew(k) ==
    /\ k \in RequestIds
    /\ requests[k].call # 0
    /\ calls[requests[k].call].status = "threw"

Answered500(k) == k \in RequestIds /\ requests[k].response.status = 500

C18_FailureIs500 ==
    /\ [](\A k \in RequestIds :
            /\ requests[k].call # 0 => Len(services[requests[k].svc].providers) > 0
            /\ (OperationThrew(k) /\ requests[k].state = "responded") =>
                    requests[k].response =
                        [status |-> 500,
                         body |-> [error |-> calls[requests[k].call].message]]
            /\ OperationThrew(k) => requests[k].response.status \in {0, 500}
            /\ requests[k].thrown # Undefined =>
                    /\ requests[k].response.status = 500
                    /\ requests[k].thrown.isError =>
                            requests[k].response.body.error = requests[k].thrown.message)
    /\ \A k \in 1..MaxRequests : OperationThrew(k) ~> Answered500(k)

\* 500 with the two entries of a call whose providers both failed
C18_Witness ==
    \E k \in RequestIds :
        /\ OperationThrew(k)
        /\ requests[k].response.status = 500
        /\ requests[k].response.body.error =
                "All providers failed:\ngemini: API error\ngroq: timeout"

\* 500 with the message of the error the scraper threw
C18_WitnessScraper ==
    \E k \in RequestIds :
        /\ requests[k].io = <<"scrape">>
        /\ requests[k].response = [status |-> 500, body |-> [error |-> "API error"]]

(***************************************************************************)
(* C19: the process-wide service is created lazily and at most once by     *)
(* getAIService: getAIService() calls with no configureAIService between   *)
(* them return the same instance, and after configureAIService(c) every    *)
(* later getAIService() returns the instance that configureAIService       *)
(* returned, with the providers of c.                                      *)
(***************************************************************************)
\* the step is a getAIService() (of GET /status) that shows in last
GetsService == last'.kind = "status" /\ last' # last

\* the step is a configureAIService(c) (of POST /config)
Configures == last'.kind = "postConfig" /\ last'.status = 200 /\ last' # last

C19_Singleton ==
    [][/\ aiServiceInstance' # aiServiceInstance =>
            \/ /\ Configures
               /\ aiServiceInstance' = last'.svc
               /\ aiServiceInstance' = Len(services) + 1
               /\ services'[aiServiceInstance'] = AIService(last'.config)
            \/ /\ GetsService
               /\ aiServiceInstance = 0
               /\ aiServiceInstance' = Len(services) + 1
               /\ services'[aiServiceInstance'] = AIService(EnvConfig(env))
       /\ GetsService =>
            /\ last'.svc = aiServiceInstance'
            /\ aiServiceInstance # 0 =>
                    /\ last'.svc = aiServiceInstance
                    /\ services' = services
            /\ (last.kind = "postConfig" /\ last.status = 200) =>
                    /\ last'.svc = last.svc
                    /\ last'.providers = getConfiguredProviders(AIService(last.config))
            /\ last.kind = "status" => last'.svc = last.svc
       /\ (GetsService \/ Configures) =>
            \A s \in 1..Len(services) : services'[s] = services[s]]_vars

\* getAIService() after configureAIService of claude alone, in a process
\* whose environment configures groq and gemini
C19_Witness ==
    /\ last.kind = "status"
    /\ last.providers = <<"claude">>
    /\ "GROQ_API_KEY" \in DOMAIN env
    /\ registryOps = 1
    /\ Len(services) = 1

\* getAIService() has built the instance from the environment
C19_WitnessLazy ==
    /\ last.kind = "status"
    /\ last.providers = <<"groq", "gemini">>
    /\ registryOps = 1
    /\ services[aiServiceInstance] = AIService(EnvConfig(env))

(***************************************************************************)
(* C20: parseAIJson round-trips fenced JSON: for every JSON value v, the   *)
(* serialization of v after a leading fence (with json or bare) and/or     *)
(* before a trailing fence, each of the two there or not, with whitespace  *)
(* around them, parses to v, as the serialization alone does.              *)
(***************************************************************************)
C20_RoundTrip ==
    last.kind = "parsed" =>
        /\ last.result.ok
        /\ last.result.value = last.input.value
        /\ last.result = last.plain

\* the string of three backquotes, after the json fence and before the
\* closing fence with whitespace at all four places, parses to itself
C20_Witness ==
    /\ last.kind = "parsed"
    /\ last.input.value = [string |-> <<BQ, BQ, BQ>>]
    /\ last.input.lead = <<BQ, BQ, BQ, "j", "s", "o", "n">>
    /\ last.input.trail = <<BQ, BQ, BQ>>
    /\ Len(last.input.text) = 5 + 7 + 3 + 4 * 2
    /\ last.result = [ok |-> TRUE, value |-> [string |-> <<BQ, BQ, BQ>>]]

\* the word json after a bare fence, with nothing between them
C20_WitnessBare ==
    /\ last.kind = "parsed"
    /\ last.input.text = <<BQ, BQ, BQ, "\"", "j", "s", "o", "n", "\"">>
    /\ last.result.ok

(***************************************************************************)
(* C21: saveToFile never replaces an existing file unless overwrite is     *)
(* true: the text of a file that exists changes only in the write of a     *)
(* call whose overwrite is true, also when calls for one path overlap.     *)
(***************************************************************************)
C21_NeverReplaces ==
    [][\A p \in SavePaths :
         (files[p] # Absent /\ files'[p] # files[p]) =>
            \E i \in 1..Len(toolCalls) :
                /\ toolCalls[i].tool = "saveToFile"
                /\ toolCalls[i].resolved = p
                /\ toolCalls[i].state = "writeFile"
                /\ toolCalls'[i].state = "responded"
                /\ toolCalls[i].args.overwrite = [value |-> TRUE]]_vars

(***************************************************************************)
(* C22: executeCommand enforces its timeout: when the command has run for  *)
(* the timeout and was sent the kill signal, the response of the tool is   *)
(* an error that reports the timeout (isError true), not a normal result.  *)
(***************************************************************************)
C22_TimeoutIsError ==
    \A i \in 1..Len(toolCalls) :
        (/\ toolCalls[i].tool = "executeCommand"
         /\ toolCalls[i].killed
         /\ toolCalls[i].state = "responded") =>
            toolCalls[i].response.isError

(***************************************************************************)
(* C23: searchFiles returns every line of the searched files that holds a  *)
(* match of the query, in the order of the traversal, up to maxResults: a  *)
(* line with a match is left out only when maxResults matches were         *)
(* collected before it, the matches never number more than maxResults and  *)
(* totalMatches is the number of the matches returned.                     *)
(***************************************************************************)
\* the line holds a match of the query
ContainsMatch(query, line, ignoreCase) ==
    \E pos \in 0..Len(line) : MatchAt(query, line, pos, ignoreCase)

\* the lines with a match of the files read, in the order of the traversal
RECURSIVE MatchingLines(_, _, _)
MatchingLines(todo, k, input) ==
    IF todo = <<>> THEN <<>>
    ELSE IF ~Head(todo).readable \/ k > Len(Head(todo).lines)
    THEN MatchingLines(Tail(todo), 1, input)
    ELSE (IF ContainsMatch(input.query, Head(todo).lines[k],
                           ~OrDefault(input.caseSensitive, FALSE))
          THEN <<[file |-> Head(todo).path, line |-> k]>> ELSE <<>>)
         \o MatchingLines(todo, k + 1, input)

\* the files a search reads when nothing stops it
SearchedFiles(c) ==
    LET all == Traversal(c.tree, <<c.args.path>>, OrDefault(c.args.recursive, TRUE))
    IN SelectSeq(all, LAMBDA f : c.args.fileTypes = Undefined
                                 \/ f.ext \in Range(c.args.fileTypes.value))

SearchAnswered(c) ==
    c.tool = "searchFiles" /\ c.state = "responded" /\ ~c.response.isError

C23_EveryMatchingLine ==
    \A i \in 1..Len(toolCalls) :
        SearchAnswered(toolCalls[i]) =>
            LET c == toolCalls[i]
                r == c.response.text
                maxResults == OrDefault(c.args.maxResults, DefaultMaxResults)
                expected == MatchingLines(SearchedFiles(c), 1, c.args)
                n == IF Len(expected) <= maxResults THEN Len(expected) ELSE maxResults
            IN /\ Len(r.matches) <= maxResults
               /\ r.totalMatches = Len(r.matches)
               /\ [k \in 1..Len(r.matches) |->
                      [file |-> r.matches[k].file, line |-> r.matches[k].line]]
                  = SubSeq(expected, 1, n)

(***************************************************************************)
(* C24: echoText returns {echoed: text}, the text as given, for every      *)
(* string with a character that is no whitespace; for the empty string and *)
(* for a string of whitespace it returns an error that names the empty     *)
(* text; for a text that is missing or no string it returns an error that  *)
(* names the invalid input; it never throws.                               *)
(***************************************************************************)
\* the inverse of Escape
RECURSIVE Unescape(_)
Unescape(t) ==
    IF t = <<>> THEN <<>>
    ELSE IF Head(t) = "\\" /\ Len(t) >= 2
    THEN <<IF t[2] = "n" THEN "\n" ELSE t[2]>> \o Unescape(Tail(Tail(t)))
    ELSE <<Head(t)>> \o Unescape(Tail(t))

\* JSON.parse(text).echoed of an answer of echoText: what stands between
\* the quotes after the key
Echoed(text) == Unescape(SubSeq(text, 16, Len(text) - 3))

HasText(args) ==
    args # Undefined /\ "text" \in DOMAIN args /\ "string" \in DOMAIN args.text

Blank(t) == \A k \in 1..Len(t) : IsSpace(t[k])

EchoCalls == {i \in 1..Len(toolCalls) : toolCalls[i].tool = "echoText"}

C24_EchoTotal ==
    \A i \in EchoCalls :
        LET args == toolCalls[i].args
            r == toolCalls[i].response
        IN /\ "threw" \notin DOMAIN r
           /\ IF ~HasText(args)
              THEN r = ToolError(<<InvalidEchoMessage>>)
              ELSE IF Blank(args.text.string)
              THEN r = ToolError(<<EmptyEchoMessage>>)
              ELSE ~r.isError /\ Echoed(r.text) = args.text.string

(***************************************************************************)
(* C25: summarizeDirectory reports the numbers of all files, of all        *)
(* directories and of all entries of the directory, and lists at most 20   *)
(* entries: of more than 20 entries it lists the first 20 under "Showing   *)
(* first 20 of N items", of 20 or fewer it lists all.                      *)
(***************************************************************************)
Summarized(c) ==
    c.tool = "summarizeDirectory" /\ c.state = "responded" /\ ~c.response.isError

CountOf(entries, type) == Cardinality({k \in 1..Len(entries) : entries[k].type = type})

C25_WitnessAll ==
    \E i \in 1..Len(toolCalls) :
        /\ Summarized(toolCalls[i])
        /\ Len(toolCalls[i].entries) = 20
        /\ Len(toolCalls[i].response.text.items) = 20

(***************************************************************************)
(* C26: for each provider (groq, claude, gemini) and each of               *)
(* extractJobDetails, analyzeResume and draftEmail, a response of the       *)
(* backend whose text cannot be parsed makes the provider return the fixed *)
(* placeholder (empty title, company and location with the first 500      *)
(* characters of the input; matchScore 50; confidence 0) and not raise:    *)
(* the call returns it with the name of that provider and tries no later   *)
(* provider.                                                               *)
(***************************************************************************)
C26_PlaceholderNotFailure ==
    \A i \in CallIds : \A k \in 1..Len(calls[i].attempts) :
        (/\ calls[i].op \in {"extractJobDetails", "analyzeResume", "draftEmail"}
         /\ calls[i].attempts[k].name \in {"groq", "claude", "gemini"}
         /\ calls[i].attempts[k].outcome = "succeeded"
         /\ ~parseAIJson(calls[i].attempts[k].content).ok) =>
            /\ k = Len(calls[i].attempts)
            /\ calls[i].status = "returned"
            /\ calls[i].result.provider = calls[i].attempts[k].name
            /\ calls[i].op = "extractJobDetails" =>
                  /\ calls[i].result.data.title = ""
                  /\ calls[i].result.data.company = ""
                  /\ calls[i].result.data.location = ""
                  /\ calls[i].result.data.description =
                        (IF calls[i].input = LongJobText THEN LongJobTextStart
                         ELSE calls[i].input)
            /\ calls[i].op = "analyzeResume" => calls[i].result.data.matchScore = 50
            /\ calls[i].op = "draftEmail" => calls[i].result.data.confidence = 0

\* the placeholder of a provider, by provider, operation and input
PlaceholderFrom(name, op, input) ==
    \E i \in CallIds :
        /\ calls[i].op = op
        /\ calls[i].input = input
        /\ calls[i].status = "returned"
        /\ calls[i].result.provider = name
        /\ ~parseAIJson(calls[i].attempts[Len(calls[i].attempts)].content).ok
        /\ \E k \in (calls[i].idx + 1)..Len(calls[i].order) :
                MapHas(services[calls[i].svc].providers, calls[i].order[k])

C26_Witness == PlaceholderFrom("claude", "extractJobDetails", LongJobText)

C26_WitnessGroq == PlaceholderFrom("groq", "analyzeResume", "")

C26_WitnessGemini == PlaceholderFrom("gemini", "draftEmail", JobTitle)

(***************************************************************************)
(* C27: after any sequence of constructions and updateConfig calls, every  *)
(* key of a registry is one of groq, claude and gemini, the provider under *)
(* a key has that key as its name and is configured (its apiKey is not     *)
(* empty); hence the fallback loop passes over a name only when no         *)
(* provider is registered under it.                                        *)
(***************************************************************************)
RegistryWellFormed(m) ==
    \A k \in 1..Len(m) :
        /\ m[k].key \in {"groq", "claude", "gemini"}
        /\ m[k].value.name = m[k].key
        /\ m[k].value.apiKey # ""
        /\ isConfigured(m[k].value)

\* the names the loop of call i passes over in this step
NewlySkipped(i) ==
    {calls'[i].skipped[k] :
        k \in IF i \in 1..Len(calls)
              THEN (Len(calls[i].skipped) + 1)..Len(calls'[i].skipped)
              ELSE 1..Len(calls'[i].skipped)}

C27_RegisteredIsConfigured ==
    /\ [](\A s \in 1..Len(services) : RegistryWellFormed(services[s].providers))
    /\ [][\A i \in 1..Len(calls') : \A n \in NewlySkipped(i) :
             ~MapHas(services[calls'[i].svc].providers, n)]_vars

C27_Witness ==
    \E i \in CallIds :
        /\ Len(calls[i].skipped) >= 1
        /\ Len(calls[i].attempts) >= 1
        /\ Len(services[calls[i].svc].providers) >= 2
        /\ last.kind = "updateConfig"

(***************************************************************************)
(* C28: the registered providers of one AIService never shrink: no         *)
(* updateConfig removes a provider, and an updateConfig whose block for a  *)
(* kind has an empty apiKey leaves the registration and the descriptor of  *)
(* that kind as they were.                                                 *)
(***************************************************************************)
C28_NeverShrinks ==
    [][\A s \in 1..Len(services) :
          /\ \A k \in Kinds :
                MapHas(services[s].providers, k) => MapHas(services'[s].providers, k)
          /\ (last'.kind = "updateConfig" /\ last'.svc = s) =>
                \A k \in Kinds \cap DOMAIN last'.config :
                    last'.config[k].apiKey = "" =>
                        MapGet(services'[s].providers, k) = MapGet(services[s].providers, k)]_vars

\* an updateConfig with an empty key for a kind that was registered
C28_Witness ==
    /\ last.kind = "updateConfig"
    /\ \E k \in Kinds \cap DOMAIN last.config :
          /\ last.config[k].apiKey = ""
          /\ MapHas(last.before.providers, k)
          /\ MapGet(services[last.svc].providers, k) = MapGet(last.before.providers, k)
    /\ Len(services[last.svc].providers) > Len(last.before.providers)

(***************************************************************************)
(* C29: every call of an operation ends, with a value or with the          *)
(* exhaustion error, provided each backend request it makes ends; during   *)
(* one call the backend of a provider is asked at most once, so a call     *)
(* makes at most three backend requests and its error log has at most      *)
(* three entries.                                                          *)
(***************************************************************************)
AtMostOncePerProvider(c) ==
    /\ Cardinality(Names(c.attempts)) = Len(c.attempts)
    /\ Len(c.attempts) <= 3
    /\ Len(c.errors) <= 3

EndsProperly(c) ==
    \/ c.status = "returned" /\ c.result # Undefined
    \/ c.status = "threw" /\ c.result = Undefined /\ c.message = ExhaustionMessage(c.errors)

C29_Terminates ==
    /\ [](\A i \in CallIds :
            /\ AtMostOncePerProvider(calls[i])
            /\ Finished(calls[i]) => EndsProperly(calls[i]))
    /\ \A i \in 1..MaxCalls :
            (Len(calls) >= i) ~> (Len(calls) >= i /\ Finished(calls[i]))

\* all three providers were asked and failed
C29_Witness ==
    \E i \in CallIds :
        /\ calls[i].status = "threw"
        /\ Len(calls[i].attempts) = 3
        /\ Len(calls[i].errors) = 3

\* the third provider answered after two failures
C29_WitnessReturned ==
    \E i \in CallIds :
        /\ calls[i].status = "returned"
        /\ Len(calls[i].attempts) = 3
        /\ Len(calls[i].errors) = 2

(***************************************************************************)
(* C30: configureAIService (and so POST /config) replaces the process-wide *)
(* instance and does not touch the previous one: an operation that is in   *)
(* flight on the previous instance goes on and ends with the providers and *)
(* the default of that instance, and every request that asks for the       *)
(* instance afterwards gets the new one.                                   *)
(***************************************************************************)
\* call c works with the registry and the default of its own instance
OnOwnInstance(c) ==
    /\ c.svc \in 1..Len(services)
    /\ c.order = TrialOrder(c.preferredProvider, services[c.svc].defaultProvider)
    /\ \A k \in 1..Len(c.attempts) : MapHas(services[c.svc].providers, c.attempts[k].name)
    /\ \A k \in 1..Len(c.skipped) : ~MapHas(services[c.svc].providers, c.skipped[k])
    /\ c.status = "returned" => MapHas(services[c.svc].providers, c.result.provider)

C30_ReplacesInstance ==
    /\ [](\A i \in CallIds : OnOwnInstance(calls[i]))
    /\ [][/\ Configures =>
                /\ aiServiceInstance' = Len(services) + 1
                /\ services'[aiServiceInstance'] = AIService(last'.config)
                /\ \A s \in 1..Len(services) : services'[s] = services[s]
                /\ calls' = calls
          /\ \A k \in 1..Len(requests') :
                AsksForService(k) =>
                    /\ requests'[k].svc = aiServiceInstance'
                    /\ requests'[k].call # 0 =>
                            calls'[requests'[k].call].svc = aiServiceInstance']_vars

\* a call is in flight on the instance that POST /config has replaced, and
\* the provider it waits for is not registered in the new instance
C30_Witness ==
    \E i \in CallIds :
        /\ calls[i].status = "awaiting"
        /\ last.kind = "postConfig"
        /\ last.status = 200
        /\ last.previous = calls[i].svc
        /\ aiServiceInstance # calls[i].svc
        /\ ~MapHas(services[aiServiceInstance].providers, calls[i].provider.name)

\* such a call has ended with a provider of the replaced instance
C30_WitnessFinished ==
    \E i \in CallIds :
        /\ calls[i].status = "returned"
        /\ Len(calls[i].attempts) = 2
        /\ last.kind = "postConfig"
        /\ last.previous = calls[i].svc
        /\ aiServiceInstance # calls[i].svc
        /\ ~MapHas(services[aiServiceInstance].providers, calls[i].result.provider)
        /\ services[aiServiceInstance].defaultProvider # services[calls[i].svc].defaultProvider

====
